---- MODULE Spec2Model ----
(***************************************************************************)
(* Authorization core of pdf2jpg: temporary API keys kept in a            *)
(* transactional document store (FirestoreRepository), the negative        *)
(* decision cache, and the KeyService / admin handler operations that      *)
(* issue, consume, revoke, inspect and clean up keys.                      *)
(*                                                                         *)
(* Time is counted in ticks of thirty seconds and a duration is its whole  *)
(* number of ticks: negativeCacheTTL (30 s) is one tick, errorCacheTTL     *)
(* (5 s) is zero ticks, so an error entry is served only within the tick   *)
(* it was stored in.  A Go *time.Time or a missing document is a sequence  *)
(* of length zero or one.                                                  *)
(*                                                                         *)
(* A Firestore transaction (RunTransaction with MaxAttempts(1)) is a read  *)
(* step that takes a snapshot and a commit step that is applied only if    *)
(* the document still equals the snapshot; otherwise the attempt ends with *)
(* Aborted, which withRetries treats as retryable.  Stored records never   *)
(* return to an earlier value, so comparing values is comparing versions.  *)
(***************************************************************************)
EXTENDS Integers, FiniteSets, Sequences, TLC

\* ---------------------------------------------------------------- bounds
MaxKeys == 1
MaxUsage == 2
MaxTTL == 1
MaxTime == 2
MaxFaults == 1

\* ------------------------------------------------------ program constants
maxRetries == 3
NegativeCacheTTL == 1
ErrorCacheTTL == 0
defaultCleanupLimit == 200
defaultKeyBytes == 32
defaultUsageLimit == 10
defaultTTLMinutes == 10080
minUsageLimit == 1
maxUsageLimit == 1000
minTTLMinutes == 15
maxTTLMinutes == 10080

StatusOK == 200
StatusCreated == 201
StatusBadRequest == 400
StatusUnauthorized == 401
StatusNotFound == 404
StatusRequestTimeout == 408
StatusRequestEntityTooLarge == 413
StatusTooManyRequests == 429
StatusMethodNotAllowed == 405
StatusInternalServerError == 500

Procs == {"w1", "w2"}
Keys == 1..MaxKeys
\* a header value or path segment that the generator never produces
NoKey == 0
Times == 0..MaxTime

VARIABLES
    clock,      \* the instance clock (clock.Now / time.Now)
    store,      \* Firestore collection: key -> APIKey document
    issued,     \* history: key the generator has produced -> usage limit it was issued with
    known,      \* history: keys an issue response has handed out
    cache,      \* decisionCache.data: key -> cachedDecision
    proc,       \* per request worker: position and locals of the running call
    authCount,  \* history: per key, ValidateAndConsume calls that returned authorized
    revokeRet,  \* history: per key, the record returned by the first successful Revoke
    faults,     \* history: store attempts that ended with a retryable error, up to MaxFaults
    lastNeg,    \* history: per key, the negative outcome a ValidateAndConsume call cached last
                \* and when, kept until a cache.Delete of the key or the end of its TTL
    admin       \* AdminAuthMiddleware: its configuration and ipRateLimiter.limiters

vars == <<clock, store, issued, known, cache, proc, authCount, revokeRet, faults, lastNeg, admin>>

\* ------------------------------------------------------------- APIKey
IsExpired(k, now) == now > k.exp

StatusExpiredFirst(k, now) ==
    IF now > k.exp THEN "expired"
    ELSE IF k.rev # <<>> THEN "revoked"
    ELSE IF k.rem <= 0 THEN "exhausted"
    ELSE "active"

Status(k, now) ==
    IF k.rev # <<>> THEN "revoked"
    ELSE IF now > k.exp THEN "expired"
    ELSE IF k.rem <= 0 THEN "exhausted"
    ELSE "active"

\* ---------------------------------------------------------- validation
mapErrorToOutcomeDefaultAuthorized(err) ==
    CASE err = "not_found" -> "unauthorized"
      [] err = "expired"   -> "expired"
      [] err = "revoked"   -> "revoked"
      [] err = "exhausted" -> "exhausted"
      [] OTHER             -> "authorized"

mapErrorToOutcome(err) ==
    CASE err = "not_found" -> "unauthorized"
      [] err = "expired"   -> "expired"
      [] err = "revoked"   -> "revoked"
      [] err = "exhausted" -> "exhausted"
      [] OTHER             -> "error"

httpStatusExpiredUnauthorized(o) ==
    CASE o = "unauthorized" -> 401
      [] o = "expired"      -> 401
      [] o = "revoked"      -> 403
      [] o = "exhausted"    -> 429
      [] o = "error"        -> 503
      [] OTHER              -> 200

httpStatus(o) ==
    CASE o = "unauthorized" -> 401
      [] o = "expired"      -> 403
      [] o = "revoked"      -> 403
      [] o = "exhausted"    -> 429
      [] o = "error"        -> 503
      [] OTHER              -> 200

errorMessage(o) ==
    CASE o = "unauthorized" -> "unauthorized"
      [] o = "expired"      -> "key inactive"
      [] o = "revoked"      -> "key inactive"
      [] o = "exhausted"    -> "usage limit reached"
      [] o = "error"        -> "service unavailable"
      [] OTHER              -> ""

\* ------------------------------------------------------ APIKeyMiddleware
\* durations of the middleware configuration are in milliseconds
defaultRetryAfterSec == 5

\* a missing or empty X-API-Key header, and the configured static key
NoHeader == -1
StaticKey == -2
StaticKeys == {StaticKey}

\* values of the X-Admin-Key header: the configured master key and a key that
\* is not configured; the operator of a call that carries no admin key
MasterKey == -3
OtherAdminKey == -4
MasterKeys == {MasterKey}
NoOperator == NoKey

\* AdminAuthMiddleware defaults; rate.Limiter tokens are counted in units of
\* 1/TokenUnit token, so that one token per hour is one unit per tick
defaultAdminRateLimit == 100
defaultAdminBurst == 20
TokenUnit == 120
RateInf == -1
RateHourly == 1
limiterTTL == 20

\* AdminMiddlewareConfig, RateLimit in units per tick with 0 for "not set"
DefaultAdminCfg == [limit |-> 0, burst |-> 0]

\* the configuration of the middleware a client request runs in when nothing
\* else is said: temporary keys enabled, a key service, RetryAfter not set
DefaultCfg == [feature |-> TRUE, service |-> TRUE, retryAfter |-> 0]

\* retryAfter := cfg.RetryAfter, or defaultRetryAfterSec seconds when it is zero
RetryAfterNoDefault(cfg) == cfg.retryAfter

RetryAfterOf(cfg) ==
    IF cfg.retryAfter = 0 THEN defaultRetryAfterSec * 1000 ELSE cfg.retryAfter

formatRetryAfter(d) == d \div 1000

\* -------------------------------------------------------- decisionCache
CacheHitStrict(k, now) == k \in DOMAIN cache /\ now < cache[k].expiresAt

CacheHit(k, now) == k \in DOMAIN cache /\ ~(now > cache[k].expiresAt)

CacheSet(c, k, outcome, ttl, now) ==
    [x \in DOMAIN c \cup {k} |->
        IF x = k THEN [outcome |-> outcome, expiresAt |-> now + ttl] ELSE c[x]]

CacheDelete(c, k) == [x \in DOMAIN c \ {k} |-> c[x]]

\* ------------------------------------------------------------- the store
StorePut(s, k, rec) == [x \in DOMAIN s \cup {k} |-> IF x = k THEN rec ELSE s[x]]

StoreDelete(s, ks) == [x \in DOMAIN s \ ks |-> s[x]]

Snapshot(k) == IF k \in DOMAIN store THEN <<store[k]>> ELSE <<>>

\* -------------------------------------------------------------- workers
IdleRec ==
    [pc |-> "idle", op |-> "none", key |-> NoKey, now |-> 0, attempt |-> 0,
     snap |-> <<>>, res |-> <<>>, err |-> "none", outcome |-> "none",
     status |-> 0, count |-> 0, limit |-> 0, rem0 |-> 0, afterRevoke |-> FALSE,
     hit |-> FALSE, pastExpiry |-> FALSE,
     cfg |-> DefaultCfg, msg |-> "", retry |-> <<>>, fwd |-> FALSE,
     req |-> <<>>, issue |-> <<>>,
     http |-> <<>>, operator |-> NoOperator, plain |-> FALSE, log |-> {},
     invoked |-> FALSE, wr |-> <<>>, removed |-> 0, inc |-> <<>>,
     dec |-> 0]

Set(p, r) == proc' = [proc EXCEPT ![p] = r]

\* an admin handler starts when it is called directly or when the admin
\* middleware has forwarded a request to it; it keeps what the middleware
\* put into the request
Ready(p) == proc[p].pc \in {"idle", "routed"}

Fresh(p) ==
    [IdleRec EXCEPT !.http = proc[p].http, !.operator = proc[p].operator,
                    !.log = proc[p].log]

\* a value printed into a log line or used as a metric label: verbatim, or
\* as the prefix of its SHA-256 digest
Raw(v) == [kind |-> "raw", v |-> v]

\* hashIdentifier(value, prefix)
hashIdentifier(v) == [kind |-> "hash", v |-> v]

LogLine(event, args) == [event |-> event, args |-> args]

\* APIKeyMiddleware after ValidateAndConsume returned outcome o: forward to the
\* next handler, or write the JSON error, with Retry-After for error
Respond(r, o) ==
    IF o = "authorized"
    THEN [r EXCEPT !.outcome = o, !.fwd = TRUE, !.status = StatusOK]
    ELSE [r EXCEPT !.outcome = o, !.fwd = FALSE,
                   !.status = httpStatus(o), !.msg = errorMessage(o),
                   !.retry = IF o = "error"
                             THEN <<formatRetryAfter(RetryAfterOf(r.cfg))>>
                             ELSE <<>>,
                   !.log = {LogLine(IF o = "error" THEN "firestore validation failure"
                                                   ELSE "inactive api key",
                                    {hashIdentifier(r.key)})}]

\* withRetries: what follows an attempt that ended with a retryable error
AfterRetryable(r, retryPc, failPc) ==
    IF r.attempt = maxRetries - 1
    THEN [r EXCEPT !.pc = failPc, !.err = "transient", !.attempt = 0, !.now = 0]
    ELSE [r EXCEPT !.pc = retryPc, !.attempt = r.attempt + 1]

Init ==
    /\ clock = 0
    /\ store = <<>>
    /\ issued = <<>>
    /\ known = {}
    /\ cache = <<>>
    /\ proc = [p \in Procs |-> IdleRec]
    /\ authCount = [k \in Keys \cup {NoKey} |-> 0]
    /\ revokeRet = [k \in Keys \cup {NoKey} |-> <<>>]
    /\ faults = 0
    /\ lastNeg = [k \in Keys \cup {NoKey} |-> <<>>]
    /\ admin = [cfg |-> DefaultAdminCfg, limiters |-> <<>>]

\* (mutant) every entry is kept for the negative TTL
EntryTTLNegativeOnly(outcome) == NegativeCacheTTL

\* the time for which decisionCache serves an entry with this outcome
EntryTTL(outcome) == IF outcome = "error" THEN ErrorCacheTTL ELSE NegativeCacheTTL

Tick ==
    /\ clock < MaxTime
    /\ clock' = clock + 1
    /\ lastNeg' = [k \in DOMAIN lastNeg |->
                      IF lastNeg[k] # <<>>
                         /\ clock' > lastNeg[k][1].at + EntryTTL(lastNeg[k][1].outcome)
                      THEN <<>> ELSE lastNeg[k]]
    /\ UNCHANGED <<store, issued, known, cache, proc, authCount, revokeRet, faults, admin>>

\* history: the uses left on key k for a Consume called at now, 0 when the
\* record is missing, revoked or at or past its expiry
ActiveRemaining(k, now) ==
    IF k \in DOMAIN store /\ store[k].rev = <<>> /\ now < store[k].exp
    THEN store[k].rem ELSE 0

\* history: key k has a record that is not revoked and whose expiry time is before now
PastExpiry(k, now) ==
    k \in DOMAIN store /\ store[k].rev = <<>> /\ now > store[k].exp

\* ============================================================ operations
\* ------------------------------------- KeyService.ValidateAndConsume
\* (mutant) the validation counter is incremented under one fixed label
IncKeyValidationOneLabel(inc, o) == Append(inc, "unauthorized")

\* expvarMetrics.IncKeyValidation: one more under the label of outcome o;
\* inc lists the labels a call has incremented so far
IncKeyValidation(inc, o) == Append(inc, o)

\* cache.Get under the read lock, then either the cached answer, the eviction
\* of an expired entry, or the call of Repository.Consume with clock.Now()
VacCall(p, k, cfg) ==
    /\ proc[p].pc = "idle"
    /\ LET r == [IdleRec EXCEPT !.op = "vac", !.key = k, !.cfg = cfg,
                                !.afterRevoke = (revokeRet[k] # <<>>),
                                !.pastExpiry = PastExpiry(k, clock)]
       IN IF CacheHit(k, clock)
          THEN Set(p, Respond([r EXCEPT !.pc = "done", !.hit = TRUE,
                                        !.inc = IF cache[k].outcome = "authorized"
                                                THEN @
                                                ELSE IncKeyValidation(@, cache[k].outcome)],
                              cache[k].outcome))
          ELSE IF k \in DOMAIN cache
          THEN Set(p, [r EXCEPT !.pc = "vac_evict"])
          ELSE Set(p, [r EXCEPT !.pc = "vac_read", !.now = clock,
                                !.rem0 = ActiveRemaining(k, clock)])
    /\ UNCHANGED <<clock, store, issued, known, cache, authCount, revokeRet, faults, lastNeg, admin>>

\* a client request with a temporary key through the default middleware
VacStart(p, k) == VacCall(p, k, DefaultCfg)

\* APIKeyMiddleware: what the header and the configuration decide before any
\* call of the key service
MwDecisionFeatureFirst(h, cfg) ==
    IF h = NoHeader THEN "missing"
    ELSE IF ~cfg.feature \/ ~cfg.service THEN "disabled"
    ELSE IF h \in StaticKeys THEN "static"
    ELSE "validate"

MwDecisionIgnoresFeature(h, cfg) ==
    IF h = NoHeader THEN "missing"
    ELSE IF h \in StaticKeys THEN "static"
    ELSE IF ~cfg.service THEN "disabled"
    ELSE "validate"

MwDecision(h, cfg) ==
    IF h = NoHeader THEN "missing"
    ELSE IF h \in StaticKeys THEN "static"
    ELSE IF ~cfg.feature \/ ~cfg.service THEN "disabled"
    ELSE "validate"

\* APIKeyMiddleware: a request with header value h through a middleware
\* configured with cfg and the static key
MwRequest(p, h, cfg) ==
    LET d == MwDecision(h, cfg)
        r == [IdleRec EXCEPT !.pc = "done", !.op = "mw", !.key = h, !.cfg = cfg]
    IN IF d = "validate"
       THEN VacCall(p, h, cfg)
       ELSE /\ proc[p].pc = "idle"
            /\ IF d = "static"
               THEN Set(p, [r EXCEPT !.fwd = TRUE, !.status = StatusOK])
               ELSE Set(p, [r EXCEPT !.status = StatusUnauthorized,
                                     !.msg = "unauthorized",
                                     !.log = {LogLine(IF d = "missing" THEN "missing api key"
                                                                       ELSE "unknown api key",
                                                      {})}])
            /\ UNCHANGED <<clock, store, issued, known, cache, authCount,
                           revokeRet, faults, lastNeg, admin>>

\* decisionCache.Get: c.Delete(key) of the entry it saw expired, then Consume
VacEvict(p) ==
    /\ proc[p].pc = "vac_evict"
    /\ cache' = CacheDelete(cache, proc[p].key)
    /\ lastNeg' = [lastNeg EXCEPT ![proc[p].key] = <<>>]
    /\ Set(p, [proc[p] EXCEPT !.pc = "vac_read", !.now = clock,
                              !.rem0 = ActiveRemaining(proc[p].key, clock)])
    /\ UNCHANGED <<clock, store, issued, known, authCount, revokeRet, faults, admin>>

\* the key error the Consume transaction returns for the record it read
ConsumeCheckNoExhausted(snap, now) ==
    IF snap = <<>> THEN "not_found"
    ELSE IF snap[1].rev # <<>> THEN "revoked"
    ELSE IF IsExpired(snap[1], now) THEN "expired"
    ELSE "nil"

ConsumeCheckExhaustedFirst(snap, now) ==
    IF snap = <<>> THEN "not_found"
    ELSE IF snap[1].rev # <<>> THEN "revoked"
    ELSE IF snap[1].rem <= 0 THEN "exhausted"
    ELSE IF IsExpired(snap[1], now) THEN "expired"
    ELSE "nil"

ConsumeCheck(snap, now) ==
    IF snap = <<>> THEN "not_found"
    ELSE IF snap[1].rev # <<>> THEN "revoked"
    ELSE IF IsExpired(snap[1], now) THEN "expired"
    ELSE IF snap[1].rem <= 0 THEN "exhausted"
    ELSE "nil"

\* FirestoreRepository.Consume, inside the transaction: tx.Get and the switch
ConsumeRead(p) ==
    /\ proc[p].pc = "vac_read"
    /\ LET snap == Snapshot(proc[p].key)
           e == ConsumeCheck(snap, proc[p].now)
       IN IF e # "nil"
          THEN Set(p, [proc[p] EXCEPT !.pc = "vac_post", !.err = e,
                                      !.attempt = 0, !.now = 0])
          ELSE Set(p, [proc[p] EXCEPT !.pc = "vac_commit", !.snap = snap])
    /\ UNCHANGED <<clock, store, issued, known, cache, authCount, revokeRet, faults, lastNeg, admin>>

\* the record the Consume transaction writes: record.RemainingUsage--
ConsumedRecordNotWritten(rec) == rec

ConsumedRecord(rec) == [rec EXCEPT !.rem = @ - 1]

CommitUnchecked(p) == TRUE

\* the commit of a transaction is applied only if the document it read is unchanged
CommitValid(p) == Snapshot(proc[p].key) = proc[p].snap

\* tx.Set and the commit of the transaction
ConsumeCommit(p) ==
    /\ proc[p].pc = "vac_commit"
    /\ IF CommitValid(p)
       THEN LET rec == ConsumedRecord(proc[p].snap[1])
            IN /\ store' = StorePut(store, proc[p].key, rec)
               /\ Set(p, [proc[p] EXCEPT !.pc = "vac_post", !.err = "nil",
                                         !.attempt = 0, !.now = 0,
                                         !.res = <<rec>>, !.snap = <<>>,
                                         !.dec = @ + 1])
       ELSE /\ store' = store
            /\ Set(p, [AfterRetryable(proc[p], "vac_read", "vac_post")
                          EXCEPT !.snap = <<>>])
    /\ UNCHANGED <<clock, issued, known, cache, authCount, revokeRet, faults, lastNeg, admin>>

\* ValidateAndConsume after Consume returned: evict on success, otherwise
\* cache the negative outcome; an expired key goes on to Repository.Delete
VacPost(p) ==
    /\ proc[p].pc = "vac_post"
    /\ LET k == proc[p].key
           o == mapErrorToOutcome(proc[p].err)
       IN IF proc[p].err = "nil"
          THEN /\ cache' = CacheDelete(cache, k)
               /\ lastNeg' = [lastNeg EXCEPT ![k] = <<>>]
               /\ authCount' = [authCount EXCEPT ![k] = @ + 1]
               /\ Set(p, Respond([proc[p] EXCEPT !.pc = "done", !.attempt = 0,
                                                 !.now = 0,
                                                 !.inc = IncKeyValidation(@, "authorized")],
                                  "authorized"))
          ELSE /\ cache' = CacheSet(cache, k, o, EntryTTL(o), clock)
               /\ lastNeg' = [lastNeg EXCEPT ![k] = <<[outcome |-> o, at |-> clock]>>]
               /\ authCount' = authCount
               /\ Set(p, Respond([proc[p] EXCEPT
                            !.pc = IF proc[p].err = "expired" THEN "vac_delete" ELSE "done",
                            !.inc = IF proc[p].err = "expired" THEN @
                                    ELSE IncKeyValidation(@, o),
                            !.attempt = 0, !.now = 0, !.res = <<>>], o))
    /\ UNCHANGED <<clock, store, issued, known, revokeRet, faults, admin>>

\* FirestoreRepository.Delete of the key that Consume reported expired
VacDelete(p) ==
    /\ proc[p].pc = "vac_delete"
    /\ store' = StoreDelete(store, {proc[p].key})
    /\ Set(p, [proc[p] EXCEPT !.pc = "done", !.attempt = 0,
                              !.inc = IncKeyValidation(@, proc[p].outcome)])
    /\ UNCHANGED <<clock, issued, known, cache, authCount, revokeRet, faults, lastNeg, admin>>

\* the response has been written; the worker takes the next request
Return(p) ==
    /\ proc[p].pc = "done"
    /\ Set(p, IdleRec)
    /\ UNCHANGED <<clock, store, issued, known, cache, authCount, revokeRet, faults, lastNeg, admin>>

\* ------------------------------ issueKey / KeyService.IssueTemporaryKey
Min(S) == CHOOSE x \in S : \A y \in S : x <= y

\* generateBase62Key(length): the loop fills out[0..length-1] and returns
\* string(out); the number of symbols of the key
generateBase62KeyLen(length) == length

IssuedRecordExpiresNow(label, usage, ttl, now) ==
    [label |-> label, max |-> usage, rem |-> usage, created |-> now,
     exp |-> now, rev |-> <<>>]

\* the record IssueTemporaryKey builds from the request and clock.Now()
IssuedRecord(label, usage, ttl, now) ==
    [label |-> label, max |-> usage, rem |-> usage, created |-> now,
     exp |-> now + ttl, rev |-> <<>>]

\* KeyService.IssueTemporaryKey up to the repository call: the generator
\* returns a key it has not produced before; issue keeps the request and the
\* time of the call for the properties
IssueCall(p, req, label, usage, ttl) ==
    /\ Ready(p)
    /\ DOMAIN issued # Keys
    /\ LET k == Min(Keys \ DOMAIN issued)
           rec == IssuedRecord(label, usage, ttl, clock)
       IN /\ issued' = [x \in DOMAIN issued \cup {k} |-> IF x = k THEN usage ELSE issued[x]]
          /\ Set(p, [Fresh(p) EXCEPT !.pc = "iss_create", !.op = "issue", !.key = k,
                                    !.now = clock, !.res = <<rec>>, !.req = req,
                                    !.issue = <<[label |-> label, usage |-> usage,
                                                 ttl |-> ttl, at |-> clock,
                                                 keyLen |-> generateBase62KeyLen(defaultKeyBytes)]>>])
    /\ UNCHANGED <<clock, store, known, cache, authCount, revokeRet, faults, lastNeg, admin>>

\* IssueTemporaryKey called with a request that carries the label "trial"
IssueStart(p, usage, ttl) == IssueCall(p, <<>>, "trial", usage, ttl)

\* a field of the JSON body that may be absent: <<>> or <<value>>
FieldOr(opt, default) == IF opt = <<>> THEN default ELSE opt[1]

\* time.Duration(ttl) * time.Minute, in ticks of 30 seconds
MinutesToTicks(m) == m * 2

issueKeyErrorUsageOpenBelow(req) ==
    LET usage == FieldOr(req.usage, defaultUsageLimit)
        ttl == FieldOr(req.ttl, defaultTTLMinutes)
    IN IF req.method # "POST" THEN "method not allowed"
       ELSE IF req.body = "invalid" THEN "invalid json body"
       ELSE IF usage <= minUsageLimit \/ usage > maxUsageLimit THEN "usageLimit out of range"
       ELSE IF ttl < minTTLMinutes \/ ttl > maxTTLMinutes THEN "ttlMinutes out of range"
       ELSE ""

\* KeyAdminHandler.issueKey before the service call: the message of the
\* error response, "" when the request is accepted
issueKeyError(req) ==
    LET usage == FieldOr(req.usage, defaultUsageLimit)
        ttl == FieldOr(req.ttl, defaultTTLMinutes)
    IN IF req.method # "POST" THEN "method not allowed"
       ELSE IF req.body = "invalid" THEN "invalid json body"
       ELSE IF usage < minUsageLimit \/ usage > maxUsageLimit THEN "usageLimit out of range"
       ELSE IF ttl < minTTLMinutes \/ ttl > maxTTLMinutes THEN "ttlMinutes out of range"
       ELSE ""

\* KeyAdminHandler.issueKey: a rejected request is answered at once, an
\* accepted one calls IssueTemporaryKey
issueKey(p, req) ==
    LET msg == issueKeyError(req)
    IN IF msg # ""
       THEN /\ Ready(p)
            /\ Set(p, [Fresh(p) EXCEPT !.pc = "done", !.op = "issue", !.req = <<req>>,
                                      !.msg = msg,
                                      !.status = IF msg = "method not allowed"
                                                 THEN StatusMethodNotAllowed
                                                 ELSE StatusBadRequest])
            /\ UNCHANGED <<clock, store, issued, known, cache, authCount, revokeRet,
                           faults, lastNeg, admin>>
       ELSE IssueCall(p, <<req>>, req.label,
                      FieldOr(req.usage, defaultUsageLimit),
                      MinutesToTicks(FieldOr(req.ttl, defaultTTLMinutes)))

\* FirestoreRepository.CreateTemporaryKey: doc.Create fails with AlreadyExists
\* (not retryable) when the document exists
IssueCreate(p) ==
    /\ proc[p].pc = "iss_create"
    /\ IF proc[p].key \in DOMAIN store
       THEN /\ store' = store
            /\ Set(p, [proc[p] EXCEPT !.pc = "done", !.err = "already_exists", !.res = <<>>,
                                      !.attempt = 0, !.now = 0,
                                      !.status = StatusInternalServerError,
                                      !.log = @ \cup {LogLine("metric api_key_issue_total",
                                                              {hashIdentifier(proc[p].operator)})}])
       ELSE /\ store' = StorePut(store, proc[p].key, proc[p].res[1])
            /\ Set(p, [proc[p] EXCEPT !.pc = "iss_post", !.err = "nil"])
    /\ UNCHANGED <<clock, issued, known, cache, authCount, revokeRet, faults, lastNeg, admin>>

\* after the create: cache.Delete(rawKey) and the 201 response
IssuePost(p) ==
    /\ proc[p].pc = "iss_post"
    /\ cache' = CacheDelete(cache, proc[p].key)
    /\ lastNeg' = [lastNeg EXCEPT ![proc[p].key] = <<>>]
    /\ known' = known \cup {proc[p].key}
    /\ Set(p, [proc[p] EXCEPT !.pc = "done", !.attempt = 0, !.now = 0,
                              !.status = StatusCreated,
                              !.log = @ \cup {LogLine("metric api_key_issue_total",
                                                      {hashIdentifier(proc[p].operator)}),
                                              LogLine("api_key_issue",
                                                      {hashIdentifier(proc[p].key),
                                                       hashIdentifier(proc[p].operator)})}])
    /\ UNCHANGED <<clock, store, issued, authCount, revokeRet, faults, admin>>

\* --------------------------------------- revokeKey / KeyService.Revoke
RevokeStart(p, k) ==
    /\ Ready(p)
    /\ Set(p, [Fresh(p) EXCEPT !.pc = "rev_read", !.op = "revoke", !.key = k,
                              !.now = clock, !.afterRevoke = (revokeRet[k] # <<>>)])
    /\ UNCHANGED <<clock, store, issued, known, cache, authCount, revokeRet, faults, lastNeg, admin>>

\* FirestoreRepository.Revoke, inside the transaction: tx.Get
RevokeRead(p) ==
    /\ proc[p].pc = "rev_read"
    /\ LET snap == Snapshot(proc[p].key)
       IN IF snap = <<>>
          THEN Set(p, [proc[p] EXCEPT !.pc = "rev_post", !.err = "not_found",
                                      !.attempt = 0, !.now = 0])
          ELSE Set(p, [proc[p] EXCEPT !.pc = "rev_commit", !.snap = snap])
    /\ UNCHANGED <<clock, store, issued, known, cache, authCount, revokeRet, faults, lastNeg, admin>>

\* the transaction's test of the record it read: record.RevokedAt != nil
AlreadyRevokedNever(rec) == FALSE

AlreadyRevoked(rec) == rec.rev # <<>>

\* (mutant) the revocation is stamped and the uses left are kept
RevokedRecordKeepsUsage(rec, now) == [rec EXCEPT !.rev = <<now>>]

\* the record the Revoke transaction writes: RemainingUsage = 0, RevokedAt = &now
RevokedRecord(rec, now) == [rec EXCEPT !.rem = 0, !.rev = <<now>>]

\* the already-revoked return (nothing is written, the record read is the
\* result), or the tx.Set and the commit of the transaction
RevokeCommit(p) ==
    /\ proc[p].pc = "rev_commit"
    /\ IF AlreadyRevoked(proc[p].snap[1])
       THEN /\ store' = store
            /\ Set(p, [proc[p] EXCEPT !.pc = "rev_post", !.err = "nil",
                                      !.attempt = 0, !.now = 0,
                                      !.res = proc[p].snap, !.snap = <<>>])
       ELSE IF CommitValid(p)
       THEN LET rec == RevokedRecord(proc[p].snap[1], proc[p].now)
            IN /\ store' = StorePut(store, proc[p].key, rec)
               /\ Set(p, [proc[p] EXCEPT !.pc = "rev_post", !.err = "nil",
                                         !.attempt = 0, !.now = 0,
                                         !.res = <<rec>>, !.snap = <<>>])
       ELSE /\ store' = store
            /\ Set(p, [AfterRetryable(proc[p], "rev_read", "rev_post")
                          EXCEPT !.snap = <<>>])
    /\ UNCHANGED <<clock, issued, known, cache, authCount, revokeRet, faults, lastNeg, admin>>

\* KeyService.Revoke after the repository returned, and the handler's response
RevokePost(p) ==
    /\ proc[p].pc = "rev_post"
    /\ LET k == proc[p].key
       IN IF proc[p].err = "nil"
          THEN /\ cache' = CacheSet(cache, k, "revoked", NegativeCacheTTL, clock)
               /\ revokeRet' = IF revokeRet[k] = <<>>
                               THEN [revokeRet EXCEPT ![k] = proc[p].res]
                               ELSE revokeRet
               /\ Set(p, [proc[p] EXCEPT !.pc = "done", !.attempt = 0,
                                         !.status = StatusOK,
                                         !.log = @ \cup {LogLine("api_key_revoke",
                                                                 {hashIdentifier(k),
                                                                  hashIdentifier(proc[p].operator)})}])
          ELSE /\ cache' = cache
               /\ revokeRet' = revokeRet
               /\ Set(p, [proc[p] EXCEPT !.pc = "done", !.res = <<>>, !.attempt = 0,
                            !.status = IF proc[p].err = "not_found"
                                       THEN StatusNotFound
                                       ELSE StatusInternalServerError])
    /\ UNCHANGED <<clock, store, issued, known, authCount, faults, lastNeg, admin>>

\* ------------------------------------------- getKey / KeyService.Get
GetKey(p, k) ==
    /\ Ready(p)
    /\ LET snap == Snapshot(k)
       IN IF snap = <<>>
          THEN Set(p, [Fresh(p) EXCEPT !.pc = "done", !.op = "get", !.key = k,
                                      !.err = "not_found", !.status = StatusNotFound])
          ELSE Set(p, [Fresh(p) EXCEPT !.pc = "done", !.op = "get", !.key = k,
                                      !.err = "nil", !.res = snap, !.now = clock,
                                      !.outcome = Status(snap[1], clock),
                                      !.status = StatusOK])
    /\ UNCHANGED <<clock, store, issued, known, cache, authCount, revokeRet, faults, lastNeg, admin>>

\* -------------------------------- cleanup / KeyService.CleanupExpired
EffectiveLimit(limit) == IF limit <= 0 THEN defaultCleanupLimit ELSE limit

\* KeyService.CleanupExpired up to the repository call
CleanupCall(p, req, limit) ==
    /\ Ready(p)
    /\ Set(p, [Fresh(p) EXCEPT !.pc = "cln_run", !.op = "cleanup", !.now = clock,
                              !.limit = EffectiveLimit(limit), !.req = req])
    /\ UNCHANGED <<clock, store, issued, known, cache, authCount, revokeRet, faults, lastNeg, admin>>

CleanupStart(p, limit) == CleanupCall(p, <<>>, limit)

\* strconv.Atoi of the query value: <<n>>, or <<>> when it does not parse
Atoi(v) == IF v.kind = "int" THEN <<v.n>> ELSE <<>>

cleanupLimitUnclamped(v) ==
    IF v.kind = "missing"
    THEN defaultCleanupLimit
    ELSE LET parsed == Atoi(v)
         IN IF parsed # <<>> /\ parsed[1] > 0 THEN parsed[1] ELSE defaultCleanupLimit

\* KeyAdminHandler.cleanup: the limit handed to CleanupExpired for the query
\* value v (missing, a text that is no number, or a number)
cleanupLimit(v) ==
    IF v.kind = "missing"
    THEN defaultCleanupLimit
    ELSE LET parsed == Atoi(v)
         IN IF parsed # <<>> /\ parsed[1] > 0
            THEN IF parsed[1] > defaultCleanupLimit THEN defaultCleanupLimit ELSE parsed[1]
            ELSE defaultCleanupLimit

\* KeyAdminHandler.cleanup; req keeps the query value and the limit passed on
cleanup(p, method, v) ==
    IF method # "POST"
    THEN /\ Ready(p)
         /\ Set(p, [Fresh(p) EXCEPT !.pc = "done", !.op = "cleanup",
                                   !.req = <<[method |-> method, limit |-> v, passed |-> 0]>>,
                                   !.msg = "method not allowed",
                                   !.status = StatusMethodNotAllowed])
         /\ UNCHANGED <<clock, store, issued, known, cache, authCount, revokeRet,
                        faults, lastNeg, admin>>
    ELSE CleanupCall(p, <<[method |-> method, limit |-> v, passed |-> cleanupLimit(v)]>>,
                     cleanupLimit(v))

\* the documents the query Where("expires_at", "<=", now).Limit(limit) can return
ExpiredSelections(now, limit) ==
    LET exp == {k \in DOMAIN store : store[k].exp <= now}
        n == IF Cardinality(exp) <= limit THEN Cardinality(exp) ELSE limit
    IN {sel \in SUBSET exp : Cardinality(sel) = n}

\* FirestoreRepository.DeleteExpired: one attempt (query, batch, commit)
CleanupRun(p) ==
    /\ proc[p].pc = "cln_run"
    /\ \E sel \in ExpiredSelections(proc[p].now, proc[p].limit) :
          /\ store' = StoreDelete(store, sel)
          /\ Set(p, [proc[p] EXCEPT !.pc = "done", !.err = "nil", !.attempt = 0,
                                    !.now = 0, !.limit = 0,
                                    !.count = @ + Cardinality(sel),
                                    !.removed = @ + Cardinality(sel),
                                    !.status = StatusOK])
    /\ UNCHANGED <<clock, issued, known, cache, authCount, revokeRet, faults, lastNeg, admin>>

\* ------------------------------------------------- store failures
\* An attempt of a store call ends with a retryable error (Unavailable,
\* DeadlineExceeded, ...) and nothing was applied.  DeleteExpired has counted
\* the documents of its query before the commit failed.
AttemptPcs == {"vac_read", "vac_commit", "rev_read", "rev_commit",
               "iss_create", "vac_delete", "cln_run"}

AfterFailedAttempt(r) ==
    CASE r.pc \in {"vac_read", "vac_commit"} ->
            [AfterRetryable(r, "vac_read", "vac_post") EXCEPT !.snap = <<>>]
      [] r.pc \in {"rev_read", "rev_commit"} ->
            [AfterRetryable(r, "rev_read", "rev_post") EXCEPT !.snap = <<>>]
      [] r.pc = "iss_create" ->
            IF r.attempt = maxRetries - 1
            THEN [r EXCEPT !.pc = "done", !.err = "transient", !.res = <<>>,
                           !.attempt = 0, !.now = 0,
                           !.status = StatusInternalServerError,
                           !.log = @ \cup {LogLine("metric api_key_issue_total",
                                                   {hashIdentifier(r.operator)})}]
            ELSE [r EXCEPT !.attempt = r.attempt + 1]
      [] r.pc = "vac_delete" ->
            IF r.attempt = maxRetries - 1
            THEN [r EXCEPT !.pc = "done", !.attempt = 0,
                           !.inc = IncKeyValidation(@, r.outcome)]
            ELSE [r EXCEPT !.attempt = r.attempt + 1]
      [] r.pc = "cln_run" ->
            IF r.attempt = maxRetries - 1
            THEN [r EXCEPT !.pc = "done", !.err = "transient", !.count = 0,
                           !.attempt = 0, !.now = 0, !.limit = 0,
                           !.status = StatusInternalServerError]
            ELSE [r EXCEPT !.attempt = r.attempt + 1]

AttemptError(p) ==
    /\ proc[p].pc \in AttemptPcs
    /\ IF proc[p].pc = "cln_run"
       THEN \E sel \in ExpiredSelections(proc[p].now, proc[p].limit) :
               Set(p, AfterFailedAttempt([proc[p] EXCEPT !.count = @ + Cardinality(sel)]))
       ELSE Set(p, AfterFailedAttempt(proc[p]))
    /\ UNCHANGED <<clock, store, issued, known, cache, authCount, revokeRet, lastNeg, admin>>

\* a failed attempt, counted against the number of failures of the run
AttemptFails(p) ==
    /\ faults < MaxFaults
    /\ faults' = faults + 1
    /\ AttemptError(p)

\* a failed attempt of a store that is down for as long as it likes
StoreUnavailable(p) ==
    /\ faults' = IF faults < MaxFaults THEN faults + 1 ELSE faults
    /\ AttemptError(p)

\* The write of an attempt was applied by the store but the caller saw a
\* retryable error (the response was lost or the 3 s deadline passed).
CommitPcs == {"vac_commit", "rev_commit", "iss_create", "vac_delete", "cln_run"}

CommitLost(p) ==
    /\ proc[p].pc \in CommitPcs
    /\ faults < MaxFaults
    /\ faults' = faults + 1
    /\ LET r == proc[p]
           k == r.key
       IN CASE r.pc = "vac_commit" ->
                 /\ CommitValid(p)
                 /\ store' = StorePut(store, k, ConsumedRecord(r.snap[1]))
                 /\ Set(p, AfterFailedAttempt([r EXCEPT !.dec = @ + 1]))
            [] r.pc = "rev_commit" ->
                 /\ ~AlreadyRevoked(r.snap[1])
                 /\ CommitValid(p)
                 /\ store' = StorePut(store, k, RevokedRecord(r.snap[1], r.now))
                 /\ Set(p, AfterFailedAttempt(r))
            [] r.pc = "iss_create" ->
                 /\ k \notin DOMAIN store
                 /\ store' = StorePut(store, k, r.res[1])
                 /\ Set(p, AfterFailedAttempt(r))
            [] r.pc = "vac_delete" ->
                 /\ store' = StoreDelete(store, {k})
                 /\ Set(p, AfterFailedAttempt(r))
            [] r.pc = "cln_run" ->
                 \E sel \in ExpiredSelections(r.now, r.limit) :
                    /\ store' = StoreDelete(store, sel)
                    /\ Set(p, AfterFailedAttempt([r EXCEPT !.count = @ + Cardinality(sel),
                                                            !.removed = @ + Cardinality(sel)]))
    /\ UNCHANGED <<clock, issued, known, cache, authCount, revokeRet, lastNeg, admin>>

\* ======================================================== specifications
\* what a caller can put in the X-API-Key header or in the admin path: a key
\* that an issue response returned, or a string that is no key.  A request
\* with a string that is no key touches no record and only its own cache
\* entry, so the concurrent specifications present issued keys only.
Presentable == known \cup {NoKey}

Usages == 1..MaxUsage
TTLs == 1..MaxTTL
Limits == 0..1

\* a step of a client request or of an admin request that changes keys
WorkerStep(p) ==
    \/ \E k \in known : VacStart(p, k)
    \/ VacEvict(p)
    \/ ConsumeRead(p)
    \/ ConsumeCommit(p)
    \/ VacPost(p)
    \/ VacDelete(p)
    \/ \E u \in Usages, t \in TTLs : IssueStart(p, u, t)
    \/ IssueCreate(p)
    \/ IssuePost(p)
    \/ \E k \in known : RevokeStart(p, k)
    \/ RevokeRead(p)
    \/ RevokeCommit(p)
    \/ RevokePost(p)
    \/ \E l \in Limits : CleanupStart(p, l)
    \/ CleanupRun(p)
    \/ Return(p)

\* concurrent workers, store failures included
Next ==
    \/ Tick
    \/ \E p \in Procs : WorkerStep(p)
    \/ \E p \in Procs : AttemptFails(p)
    \/ \E p \in Procs : CommitLost(p)

Spec == Init /\ [][Next]_vars

\* concurrent workers, the store does not fail
NextHealthy ==
    \/ Tick
    \/ \E p \in Procs : WorkerStep(p)

SpecHealthy == Init /\ [][NextHealthy]_vars

\* concurrent workers, the store may be unavailable but loses no response
NextDown ==
    \/ Tick
    \/ \E p \in Procs : WorkerStep(p)
    \/ \E p \in Procs : StoreUnavailable(p)

SpecDown == Init /\ [][NextDown]_vars

\* one request at a time, the store does not fail
OthersIdle(p) == \A q \in Procs \ {p} : proc[q].pc = "idle"

NextSeq ==
    \/ Tick
    \/ \E p \in Procs : OthersIdle(p) /\ WorkerStep(p)
    \/ \E p \in Procs : OthersIdle(p) /\ VacStart(p, NoKey)
    \/ \E p \in Procs : OthersIdle(p) /\ RevokeStart(p, NoKey)
    \/ \E p \in Procs, k \in Presentable : OthersIdle(p) /\ GetKey(p, k)

SpecSeq == Init /\ [][NextSeq]_vars

\* one request at a time through middlewares of every configuration, the
\* store may be unavailable
Headers == {NoHeader, StaticKey} \cup Presentable
RetryAfters == {0, 1500, 30000}
Cfgs == [feature : BOOLEAN, service : BOOLEAN, retryAfter : RetryAfters]

NextMw ==
    \/ Tick
    \/ \E p \in Procs : OthersIdle(p) /\ WorkerStep(p)
    \/ \E p \in Procs, h \in Headers, cfg \in Cfgs : OthersIdle(p) /\ MwRequest(p, h, cfg)
    \/ \E p \in Procs : OthersIdle(p) /\ StoreUnavailable(p)

SpecMw == Init /\ [][NextMw]_vars

\* KeyService.CleanupExpired called directly with limits below, at and above
\* the default, among workers that issue keys
ServiceLimits == {0 - 1, 0, 1, defaultCleanupLimit, defaultCleanupLimit + 1}

NextCleanup ==
    \/ Tick
    \/ \E p \in Procs, u \in Usages, t \in TTLs : IssueStart(p, u, t)
    \/ \E p \in Procs : IssueCreate(p)
    \/ \E p \in Procs : IssuePost(p)
    \/ \E p \in Procs, l \in ServiceLimits : CleanupStart(p, l)
    \/ \E p \in Procs : CleanupRun(p)
    \/ \E p \in Procs : Return(p)

SpecCleanup == Init /\ [][NextCleanup]_vars

\* ------------------------------------ FirestoreRepository.withRetries
\* the first wait between attempts, in milliseconds
initialBackoff == 100

\* what an attempt fn(spanCtx) can return: nil, one of the four key errors, an
\* error that carries a gRPC status, or an error without one (a decode error,
\* the error of the attempt's context)
KeyErrors == {"ErrKeyNotFound", "ErrKeyExpired", "ErrKeyRevoked", "ErrKeyExhausted"}
StatusErrors == {"NotFound", "InvalidArgument", "FailedPrecondition",
                 "PermissionDenied", "AlreadyExists", "Unavailable",
                 "DeadlineExceeded", "Aborted", "Canceled", "Internal"}
PlainErrors == {"decode api key document", "context canceled",
                "context deadline exceeded"}
AttemptResults == {"nil"} \cup KeyErrors \cup StatusErrors \cup PlainErrors

\* status.Code(err): OK for nil, the code of a status error, Unknown otherwise
StatusCode(err) ==
    IF err = "nil" THEN "OK"
    ELSE IF err \in StatusErrors THEN err
    ELSE "Unknown"

\* (mutant) only the key errors end the loop
isNonRetryableErrorKeyErrorsOnly(err) == err \in KeyErrors

\* isNonRetryableError
isNonRetryableError(err) ==
    IF StatusCode(err) = "OK" THEN TRUE
    ELSE IF StatusCode(err) \in {"NotFound", "InvalidArgument", "FailedPrecondition",
                                 "PermissionDenied", "AlreadyExists"}
    THEN TRUE
    ELSE err \in KeyErrors

\* ctx.Err() of the caller's context
CtxErr(ctx) ==
    IF ctx = "canceled" THEN "context canceled"
    ELSE IF ctx = "deadline" THEN "context deadline exceeded"
    ELSE "nil"

\* the frame of a withRetries call: the caller's context, the next wait, the
\* waits made, the number of calls of fn, and the value returned
RetryFrame(ctx) ==
    [ctx |-> ctx, backoff |-> initialBackoff, waits |-> <<>>, calls |-> 0,
     doneAtEntry |-> FALSE, ret |-> "none"]

\* a store operation enters withRetries under a context that is live or
\* already done
RetryCall(p, ctx) ==
    /\ proc[p].pc = "idle"
    /\ Set(p, [IdleRec EXCEPT !.pc = "wr_attempt", !.op = "withRetries",
                              !.wr = <<RetryFrame(ctx)>>])
    /\ UNCHANGED <<clock, store, issued, known, cache, authCount, revokeRet,
                   faults, lastNeg, admin>>

\* one pass of the loop up to the select: err = fn(spanCtx), then return err
\* if it is nil, non-retryable or the result of the last attempt
RetryAttempt(p, err) ==
    /\ proc[p].pc = "wr_attempt"
    /\ LET f == [proc[p].wr[1] EXCEPT !.calls = @ + 1]
       IN IF err = "nil" \/ isNonRetryableError(err)
             \/ proc[p].attempt = maxRetries - 1
          THEN Set(p, [proc[p] EXCEPT !.pc = "done", !.err = err,
                                      !.wr = <<[f EXCEPT !.ret = err]>>])
          ELSE Set(p, [proc[p] EXCEPT !.pc = "wr_backoff", !.err = err,
                          !.wr = <<[f EXCEPT !.doneAtEntry = (f.ctx # "live")]>>])
    /\ UNCHANGED <<clock, store, issued, known, cache, authCount, revokeRet,
                   faults, lastNeg, admin>>

\* (mutant) the select returns the error of the last attempt
selectDoneLastError(r) == r.err

\* case <-ctx.Done(): return ctx.Err()
selectDone(r) == CtxErr(r.wr[1].ctx)

\* the select, case <-ctx.Done()
RetryCtxDone(p) ==
    /\ proc[p].pc = "wr_backoff"
    /\ proc[p].wr[1].ctx # "live"
    /\ Set(p, [proc[p] EXCEPT !.pc = "done",
                              !.wr = <<[proc[p].wr[1] EXCEPT !.ret = selectDone(proc[p])]>>])
    /\ UNCHANGED <<clock, store, issued, known, cache, authCount, revokeRet,
                   faults, lastNeg, admin>>

\* the select, case <-time.After(backoff), then backoff *= 2 and attempt++;
\* the timer cannot have fired when the context was done on entry
RetryBackoffElapsed(p) ==
    /\ proc[p].pc = "wr_backoff"
    /\ ~proc[p].wr[1].doneAtEntry
    /\ Set(p, [proc[p] EXCEPT !.pc = "wr_attempt", !.attempt = @ + 1,
                  !.wr = <<[proc[p].wr[1] EXCEPT !.waits = Append(@, proc[p].wr[1].backoff),
                                                 !.backoff = @ * 2]>>])
    /\ UNCHANGED <<clock, store, issued, known, cache, authCount, revokeRet,
                   faults, lastNeg, admin>>

\* the caller's context is cancelled, or its deadline passes, while the
\* operation runs
CtxCancel(p, how) ==
    /\ proc[p].pc \in {"wr_attempt", "wr_backoff"}
    /\ proc[p].wr[1].ctx = "live"
    /\ Set(p, [proc[p] EXCEPT !.wr = <<[proc[p].wr[1] EXCEPT !.ctx = how]>>])
    /\ UNCHANGED <<clock, store, issued, known, cache, authCount, revokeRet,
                   faults, lastNeg, admin>>

CtxStates == {"live", "canceled", "deadline"}

NextRetry ==
    \/ \E p \in Procs, ctx \in CtxStates : RetryCall(p, ctx)
    \/ \E p \in Procs, err \in AttemptResults : RetryAttempt(p, err)
    \/ \E p \in Procs : RetryCtxDone(p)
    \/ \E p \in Procs : RetryBackoffElapsed(p)
    \/ \E p \in Procs, how \in CtxStates \ {"live"} : CtxCancel(p, how)

SpecRetry == Init /\ [][NextRetry]_vars

\* Consume under a request context that is cancelled or past its deadline:
\* withRetries leaves the wait before a further attempt through ctx.Done()
\* and Consume returns ctx.Err()
ConsumeCtxDone(p, how) ==
    /\ proc[p].pc = "vac_read"
    /\ proc[p].attempt > 0
    /\ Set(p, [proc[p] EXCEPT !.pc = "vac_post", !.err = CtxErr(how),
                              !.attempt = 0, !.now = 0])
    /\ UNCHANGED <<clock, store, issued, known, cache, authCount, revokeRet,
                   faults, lastNeg, admin>>

\* one request at a time through a middleware with the key service, the
\* store may be unavailable and the request context may end
OutageCfgs == [feature : {TRUE}, service : {TRUE}, retryAfter : RetryAfters]

NextOutage ==
    \/ Tick
    \/ \E p \in Procs : OthersIdle(p) /\ WorkerStep(p)
    \/ \E p \in Procs, h \in Headers, cfg \in OutageCfgs :
          OthersIdle(p) /\ MwRequest(p, h, cfg)
    \/ \E p \in Procs : OthersIdle(p) /\ StoreUnavailable(p)
    \/ \E p \in Procs, how \in {"canceled", "deadline"} : ConsumeCtxDone(p, how)

SpecOutage == Init /\ [][NextOutage]_vars

\* ------------------------------------ FirestoreRepository.CountActive
\* the documents of the query remaining_usage > 0 and expires_at > now
ActiveQuery(now) ==
    {k \in DOMAIN store : store[k].rem > 0 /\ store[k].exp > now}

\* KeyService.refreshActiveGauge up to the repository call, with clock.Now()
CountCall(p) ==
    /\ proc[p].pc = "idle"
    /\ Set(p, [IdleRec EXCEPT !.pc = "cnt_run", !.op = "count", !.now = clock])
    /\ UNCHANGED <<clock, store, issued, known, cache, authCount, revokeRet,
                   faults, lastNeg, admin>>

\* an attempt of CountActive that iterates the whole query: count++ for each
\* document, then return nil
CountRun(p) ==
    /\ proc[p].pc = "cnt_run"
    /\ Set(p, [proc[p] EXCEPT !.pc = "done", !.err = "nil", !.attempt = 0,
                              !.count = @ + Cardinality(ActiveQuery(proc[p].now))])
    /\ UNCHANGED <<clock, store, issued, known, cache, authCount, revokeRet,
                   faults, lastNeg, admin>>

\* an attempt of CountActive in which iter.Next fails with a retryable error
\* after n documents were counted
CountAttemptFails(p, n) ==
    /\ proc[p].pc = "cnt_run"
    /\ n <= Cardinality(ActiveQuery(proc[p].now))
    /\ LET r == [proc[p] EXCEPT !.count = @ + n]
       IN IF r.attempt = maxRetries - 1
          THEN Set(p, [r EXCEPT !.pc = "done", !.err = "transient", !.attempt = 0])
          ELSE Set(p, [r EXCEPT !.attempt = @ + 1])
    /\ UNCHANGED <<clock, store, issued, known, cache, authCount, revokeRet,
                   faults, lastNeg, admin>>

\* workers that issue keys and count the active ones, the query may fail
NextCount ==
    \/ Tick
    \/ \E p \in Procs, u \in Usages, t \in TTLs : IssueStart(p, u, t)
    \/ \E p \in Procs : IssueCreate(p)
    \/ \E p \in Procs : IssuePost(p)
    \/ \E p \in Procs : CountCall(p)
    \/ \E p \in Procs : CountRun(p)
    \/ \E p \in Procs, n \in 0..MaxKeys : CountAttemptFails(p, n)
    \/ \E p \in Procs : Return(p)

SpecCount == Init /\ [][NextCount]_vars

\* ------------------------------------------- ConvertHandler (/convert)
\* ConvertHandler.maxFileSize, in the size unit of the model
maxFileSize == 1

\* strings.ToLower on the last characters of a file name
ToLower(ext) ==
    IF ext = ".PDF" THEN ".pdf" ELSE IF ext = ".TXT" THEN ".txt" ELSE ext

\* (mutant) the extension is not looked at
HasPdfSuffixAny(name) == TRUE

\* strings.HasSuffix(strings.ToLower(header.Filename), ".pdf")
HasPdfSuffix(name) == ToLower(name.ext) = ".pdf"

\* r.ParseMultipartForm behind http.MaxBytesReader: a body that is no
\* multipart form is refused before it is read, a form longer than the cap
\* fails with *http.MaxBytesError
ParseMultipartForm(upload) ==
    IF ~upload.multipart THEN "not multipart"
    ELSE IF upload.bodySize > maxFileSize THEN "max bytes"
    ELSE "nil"

\* handleMultipartError
handleMultipartError(err) ==
    IF err \in {"max bytes", "message too large"}
    THEN [status |-> StatusRequestEntityTooLarge, msg |-> "file too large"]
    ELSE [status |-> StatusBadRequest, msg |-> "invalid multipart form data"]

\* handleConversionError
handleConversionError(err) ==
    IF err = "no pages"
    THEN [status |-> StatusBadRequest, msg |-> "pdf has no pages"]
    ELSE IF err \in {"canceled", "deadline exceeded"}
    THEN [status |-> StatusRequestTimeout, msg |-> "request canceled"]
    ELSE [status |-> StatusInternalServerError, msg |-> "failed to convert pdf"]

\* the checks of ServeHTTP before the upload is saved, in the order of the
\* code: <<>> when all pass, else the response
convertRejection(method, upload) ==
    IF method # "POST"
    THEN <<[status |-> StatusMethodNotAllowed, msg |-> "method not allowed"]>>
    ELSE IF ParseMultipartForm(upload) # "nil"
    THEN <<handleMultipartError(ParseMultipartForm(upload))>>
    ELSE IF ~upload.hasFile
    THEN <<[status |-> StatusBadRequest, msg |-> "file field is required"]>>
    ELSE IF upload.fileSize > 0 /\ upload.fileSize > maxFileSize
    THEN <<[status |-> StatusRequestEntityTooLarge, msg |-> "file too large"]>>
    ELSE IF ~HasPdfSuffix(upload.name)
    THEN <<[status |-> StatusBadRequest, msg |-> "file must be a pdf"]>>
    ELSE <<>>

\* APIKeyMiddleware has called next.ServeHTTP and the handler has not run yet
Forwarded(p) ==
    proc[p].pc = "done" /\ proc[p].fwd /\ proc[p].op \in {"mw", "vac"}

\* ConvertHandler.ServeHTTP for a request the API key middleware forwarded:
\* saved is the result of util.SaveUploadedFile and conv the result of
\* converter.ConvertFirstPage, "not called" when the handler does not get
\* that far
ServeHTTP(p, method, upload, saved, conv) ==
    /\ Forwarded(p)
    /\ LET rej == convertRejection(method, upload)
           r == [proc[p] EXCEPT !.op = "convert",
                    !.req = <<[method |-> method, upload |-> upload,
                               saved |-> saved, conv |-> conv]>>]
       IN IF rej # <<>>
          THEN /\ saved = "not called" /\ conv = "not called"
               /\ Set(p, [r EXCEPT !.status = rej[1].status, !.msg = rej[1].msg])
          ELSE IF saved # "nil"
          THEN /\ saved = "error" /\ conv = "not called"
               /\ Set(p, [r EXCEPT !.status = StatusInternalServerError,
                                   !.msg = "failed to process file"])
          ELSE /\ conv # "not called"
               /\ IF conv = "nil"
                  THEN Set(p, [r EXCEPT !.status = StatusOK, !.msg = "",
                                        !.invoked = TRUE])
                  ELSE Set(p, [r EXCEPT !.status = handleConversionError(conv).status,
                                        !.msg = handleConversionError(conv).msg,
                                        !.invoked = TRUE])
    /\ UNCHANGED <<clock, store, issued, known, cache, authCount, revokeRet,
                   faults, lastNeg, admin>>

\* requests to /convert through the default middleware, one at a time
ConvertMethods == {"GET", "POST"}
FileNames == [base : {"doc"}, ext : {".pdf", ".PDF", ".txt"}]
Uploads ==
    {u \in [multipart : BOOLEAN, bodySize : 0..(maxFileSize + 1),
            hasFile : BOOLEAN, fileSize : 0..(maxFileSize + 1), name : FileNames] :
        u.fileSize <= u.bodySize}
SaveResults == {"not called", "nil", "error"}
ConvertResults == {"not called", "nil", "no pages", "canceled",
                   "deadline exceeded", "render failed"}

NextConvert ==
    \/ Tick
    \/ \E p \in Procs : OthersIdle(p) /\ WorkerStep(p)
    \/ \E p \in Procs, h \in Headers : OthersIdle(p) /\ MwRequest(p, h, DefaultCfg)
    \/ \E p \in Procs :
          /\ Forwarded(p)
          /\ \E method \in ConvertMethods, upload \in Uploads,
                saved \in SaveResults, conv \in ConvertResults :
                ServeHTTP(p, method, upload, saved, conv)

SpecConvert == Init /\ [][NextConvert]_vars

\* ------------------------------------------- admin front end (/admin/)
\* the values r.URL.Path carries: the key segment of /admin/api-keys/{key}
\* and of /admin/api-keys/{key}/revoke
PathArgs(path) == IF path.kind \in {"key", "revoke"} THEN {Raw(path.key)} ELSE {}

LimitOf(cfg) == IF cfg.limit = 0 THEN (defaultAdminRateLimit * TokenUnit) \div 2 ELSE cfg.limit

BurstOfOneMore(cfg) == cfg.burst + 1

BurstOf(cfg) == IF cfg.burst = 0 THEN defaultAdminBurst ELSE cfg.burst

\* rate.NewLimiter(limit, burst): the bucket is full at the first Allow;
\* metered is history: the calls of Allow this limiter has answered from its
\* bucket, counted up to burst + 1
NewLimiter(cfg, now) ==
    [tokens |-> BurstOf(cfg) * TokenUnit, last |-> now, expires |-> 0, metered |-> 0]

\* rate.Limiter.Allow at time now: the bucket gains limit per unit of time up
\* to burst, and a request takes one token when there is one
LimiterAllow(lim, cfg, now) ==
    IF LimitOf(cfg) = RateInf
    THEN [ok |-> TRUE, lim |-> lim]
    ELSE LET gained == lim.tokens + (now - lim.last) * LimitOf(cfg)
             tokens == IF gained > BurstOf(cfg) * TokenUnit
                       THEN BurstOf(cfg) * TokenUnit ELSE gained
             seen == IF lim.metered > BurstOf(cfg) THEN lim.metered ELSE lim.metered + 1
         IN IF tokens >= TokenUnit
            THEN [ok |-> TRUE, lim |-> [lim EXCEPT !.tokens = tokens - TokenUnit, !.last = now,
                                                   !.metered = seen]]
            ELSE [ok |-> FALSE, lim |-> [lim EXCEPT !.metered = seen]]

\* ipRateLimiter.Allow(ip)
IpAllow(limiters, cfg, ip, now) ==
    LET id == IF ip = "" THEN "unknown" ELSE ip
        entry == IF id \notin DOMAIN limiters \/ now > limiters[id].expires
                 THEN NewLimiter(cfg, now) ELSE limiters[id]
        a == LimiterAllow([entry EXCEPT !.expires = now + limiterTTL], cfg, now)
    IN [ok |-> a.ok,
        limiters |-> [x \in DOMAIN limiters \cup {id} |-> IF x = id THEN a.lim ELSE limiters[x]]]

KnownAdminKeyAny(hdr) == TRUE

\* the lookup masterSet[adminKey]
KnownAdminKey(hdr) == hdr \in MasterKeys

\* strings.TrimSpace of one entry of X-Forwarded-For
TrimSpace(part) == part.text

\* net.SplitHostPort(r.RemoteAddr): <<host>>, or <<>> when there is no port
SplitHostPort(remote) == IF remote.port THEN <<remote.host>> ELSE <<>>

\* (mutant) the peer address is used whatever X-Forwarded-For says
clientIPPeerOnly(src) == src.remote.host

\* clientIP: the first entry of a non-empty X-Forwarded-For header, else the
\* host of the peer address, else the peer address as it is
clientIP(src) ==
    IF src.xff # <<>> THEN TrimSpace(src.xff[1])
    ELSE IF SplitHostPort(src.remote) # <<>> THEN SplitHostPort(src.remote)[1]
    ELSE src.remote.host

\* AdminAuthMiddleware: rate limit per client address, then the X-Admin-Key
\* header; an accepted request goes on to the admin mux with the admin key
\* as its operator
AdminRequestFrom(p, src, hdr, method, path) ==
    /\ proc[p].pc = "idle"
    /\ LET ip == clientIP(src)
           a == IpAllow(admin.limiters, admin.cfg, ip, clock)
           r == [IdleRec EXCEPT !.op = "admin",
                                !.http = <<[ip |-> ip, src |-> src, adminKey |-> hdr,
                                            method |-> method, path |-> path]>>]
       IN /\ admin' = [admin EXCEPT !.limiters = a.limiters]
          /\ IF ~a.ok
             THEN Set(p, [r EXCEPT !.pc = "done", !.status = StatusTooManyRequests,
                                   !.msg = "rate limit exceeded",
                                   !.log = {LogLine("admin rate limit exceeded", PathArgs(path))}])
             ELSE IF hdr = NoHeader
             THEN Set(p, [r EXCEPT !.pc = "done", !.status = StatusUnauthorized,
                                   !.msg = "unauthorized"])
             ELSE IF ~KnownAdminKey(hdr)
             THEN Set(p, [r EXCEPT !.pc = "done", !.status = StatusUnauthorized,
                                   !.msg = "unauthorized",
                                   !.log = {LogLine("invalid admin key", PathArgs(path))}])
             ELSE Set(p, [r EXCEPT !.pc = "routed", !.operator = hdr])
    /\ UNCHANGED <<clock, store, issued, known, cache, authCount, revokeRet, faults, lastNeg>>

\* a request without X-Forwarded-For whose peer address is ip
AdminRequest(p, ip, hdr, method, path) ==
    AdminRequestFrom(p, [xff |-> <<>>, remote |-> [host |-> ip, port |-> FALSE]],
                     hdr, method, path)

\* the handler the admin mux and routeKeyActions pick for a method and a path
AdminRouteOf(method, path) ==
    IF path.kind = "keys" THEN "issueKey"
    ELSE IF path.kind = "cleanup" THEN "cleanup"
    ELSE IF path.kind = "other" THEN "mux not found"
    ELSE IF path.kind = "keysSlash" THEN "not found"
    ELSE IF method = "GET" THEN "getKey"
    ELSE IF method = "POST" /\ path.kind = "revoke" THEN "revokeKey"
    ELSE "not found"

\* the handler a forwarded request is about to enter
RoutedTo(p, h) ==
    /\ proc[p].pc = "routed"
    /\ AdminRouteOf(proc[p].http[1].method, proc[p].http[1].path) = h

\* routeKeyActions answers 404 {"error":"not found"}; a path no pattern of
\* the admin mux matches is answered by http.NotFound with a plain-text body
AdminNotFound(p) ==
    /\ \/ RoutedTo(p, "not found")
       \/ RoutedTo(p, "mux not found")
    /\ Set(p, [Fresh(p) EXCEPT !.pc = "done", !.op = "admin", !.status = StatusNotFound,
                               !.msg = IF RoutedTo(p, "not found")
                                       THEN "not found" ELSE "404 page not found",
                               !.plain = RoutedTo(p, "mux not found")])
    /\ UNCHANGED <<clock, store, issued, known, cache, authCount, revokeRet, faults,
                   lastNeg, admin>>

\* the lines a request has written to the log: those of its middleware and
\* handlers and, once its response is written, the line of loggingMiddleware
LinesOf(p) ==
    proc[p].log
    \cup IF proc[p].pc = "done" /\ proc[p].http # <<>>
         THEN {LogLine("request", PathArgs(proc[p].http[1].path))}
         ELSE {}

\* requests to /admin/ one at a time through loggingMiddleware,
\* AdminAuthMiddleware and the admin mux, without a rate limit or with the
\* default one and burst 1; the store does not fail
RouteCfgs == {[limit |-> RateInf, burst |-> 0], [limit |-> 0, burst |-> 1]}
IPs == {"", "10.0.0.1"}
AdminHeaders == {NoHeader, MasterKey, OtherAdminKey}
Methods == {"GET", "POST", "DELETE"}
Paths ==
    [kind : {"keys", "keysSlash", "cleanup", "other"}, key : {NoKey}]
    \cup [kind : {"key", "revoke"}, key : Presentable]
RouteIssueRequests(method) ==
    IF method = "POST"
    THEN {[method |-> "POST", body |-> "json", label |-> "trial", usage |-> <<1>>,
           ttl |-> <<>>],
          [method |-> "POST", body |-> "json", label |-> "trial", usage |-> <<0>>,
           ttl |-> <<>>]}
    ELSE {[method |-> method, body |-> "empty", label |-> "", usage |-> <<>>, ttl |-> <<>>]}
RouteLimitParams == {[kind |-> "missing", n |-> 0], [kind |-> "int", n |-> 1]}

InitRoute ==
    /\ clock = 0
    /\ store = <<>>
    /\ issued = <<>>
    /\ known = {}
    /\ cache = <<>>
    /\ proc = [p \in Procs |-> IdleRec]
    /\ authCount = [k \in Keys \cup {NoKey} |-> 0]
    /\ revokeRet = [k \in Keys \cup {NoKey} |-> <<>>]
    /\ faults = 0
    /\ lastNeg = [k \in Keys \cup {NoKey} |-> <<>>]
    /\ \E cfg \in RouteCfgs : admin = [cfg |-> cfg, limiters |-> <<>>]

NextRoute ==
    \/ Tick
    \/ \E p \in Procs, ip \in IPs, hdr \in AdminHeaders, m \in Methods, path \in Paths :
          /\ OthersIdle(p)
          /\ ~(m = "GET" /\ path.kind = "revoke")
          /\ AdminRequest(p, ip, hdr, m, path)
    \/ \E p \in Procs :
          /\ RoutedTo(p, "issueKey")
          /\ \E req \in RouteIssueRequests(proc[p].http[1].method) : issueKey(p, req)
    \/ \E p \in Procs : RoutedTo(p, "getKey") /\ GetKey(p, proc[p].http[1].path.key)
    \/ \E p \in Procs : RoutedTo(p, "revokeKey") /\ RevokeStart(p, proc[p].http[1].path.key)
    \/ \E p \in Procs :
          /\ RoutedTo(p, "cleanup")
          /\ \E v \in RouteLimitParams : cleanup(p, proc[p].http[1].method, v)
    \/ \E p \in Procs : AdminNotFound(p)
    \/ \E p \in Procs : IssueCreate(p)
    \/ \E p \in Procs : IssuePost(p)
    \/ \E p \in Procs : RevokeRead(p)
    \/ \E p \in Procs : RevokeCommit(p)
    \/ \E p \in Procs : RevokePost(p)
    \/ \E p \in Procs : CleanupRun(p)
    \/ \E p \in Procs : Return(p)

SpecRoute == InitRoute /\ [][NextRoute]_vars

\* GET requests to /admin/api-keys and /admin/api-keys/{key} one at a time
\* through an AdminAuthMiddleware that adds one token per hour, with burst
\* 1 or 2
LimitCfgs == {[limit |-> RateHourly, burst |-> 1], [limit |-> RateHourly, burst |-> 2]}
LimitPaths == {[kind |-> "keys", key |-> NoKey], [kind |-> "key", key |-> NoKey]}

InitLimit ==
    /\ clock = 0
    /\ store = <<>>
    /\ issued = <<>>
    /\ known = {}
    /\ cache = <<>>
    /\ proc = [p \in Procs |-> IdleRec]
    /\ authCount = [k \in Keys \cup {NoKey} |-> 0]
    /\ revokeRet = [k \in Keys \cup {NoKey} |-> <<>>]
    /\ faults = 0
    /\ lastNeg = [k \in Keys \cup {NoKey} |-> <<>>]
    /\ \E cfg \in LimitCfgs : admin = [cfg |-> cfg, limiters |-> <<>>]

NextLimit ==
    \/ Tick
    \/ \E p \in Procs, ip \in IPs, hdr \in AdminHeaders, path \in LimitPaths :
          OthersIdle(p) /\ AdminRequest(p, ip, hdr, "GET", path)
    \/ \E p \in Procs :
          /\ RoutedTo(p, "issueKey")
          /\ \E req \in RouteIssueRequests(proc[p].http[1].method) : issueKey(p, req)
    \/ \E p \in Procs : RoutedTo(p, "getKey") /\ GetKey(p, proc[p].http[1].path.key)
    \/ \E p \in Procs : Return(p)

SpecLimit == InitLimit /\ [][NextLimit]_vars

\* GET requests from peers with and without X-Forwarded-For, one at a time,
\* through the middleware of SpecLimit
Sources ==
    {[xff |-> <<>>, remote |-> [host |-> "10.0.0.1", port |-> TRUE]],
     [xff |-> <<[text |-> "10.0.0.2", padded |-> TRUE],
                [text |-> "10.0.0.1", padded |-> FALSE]>>,
      remote |-> [host |-> "10.0.0.1", port |-> TRUE]],
     [xff |-> <<>>, remote |-> [host |-> "", port |-> FALSE]]}

NextClient ==
    \/ Tick
    \/ \E p \in Procs, src \in Sources, hdr \in AdminHeaders, path \in LimitPaths :
          OthersIdle(p) /\ AdminRequestFrom(p, src, hdr, "GET", path)
    \/ \E p \in Procs :
          /\ RoutedTo(p, "issueKey")
          /\ \E req \in RouteIssueRequests(proc[p].http[1].method) : issueKey(p, req)
    \/ \E p \in Procs : RoutedTo(p, "getKey") /\ GetKey(p, proc[p].http[1].path.key)
    \/ \E p \in Procs : Return(p)

SpecClient == InitLimit /\ [][NextClient]_vars

\* no admin request arrives for longer than the TTL of a limiter entry
LongIdle ==
    /\ clock <= MaxTime
    /\ \A p \in Procs : proc[p].pc = "idle"
    /\ clock' = clock + limiterTTL + 1
    /\ UNCHANGED <<store, issued, known, cache, proc, authCount, revokeRet,
                   faults, lastNeg, admin>>

\* the requests of SpecLimit, with pauses of more than ten minutes
NextIdle ==
    \/ NextLimit
    \/ LongIdle

SpecIdle == InitLimit /\ [][NextIdle]_vars

\* admin requests one at a time, a finished request may hold its response
\* while the next one runs; the store does not fail and no key is used or
\* revoked
Quiet(p) == \A q \in Procs \ {p} : proc[q].pc \in {"idle", "done"}

Labels == {"trial", "beta"}
UsageInputs == {<<>>} \cup {<<n>> : n \in {-1, 0, 1, 1000, 1001}}
TTLInputs == {<<>>} \cup {<<n>> : n \in {14, 15, 10080, 10081}}
IssueRequests ==
    [method : {"POST"}, body : {"json"}, label : Labels, usage : UsageInputs,
     ttl : TTLInputs]
    \cup [method : {"GET"}, body : {"empty"}, label : {""}, usage : {<<>>}, ttl : {<<>>}]
    \cup [method : {"POST"}, body : {"invalid", "empty"}, label : {""}, usage : {<<>>},
          ttl : {<<>>}]
LimitParams ==
    {[kind |-> "missing", n |-> 0], [kind |-> "text", n |-> 0]}
    \cup {[kind |-> "int", n |-> n] : n \in {-1, 0, 1, 200, 201, 500}}

NextAdmin ==
    \/ Tick
    \/ \E p \in Procs, req \in IssueRequests : Quiet(p) /\ issueKey(p, req)
    \/ \E p \in Procs, u \in Usages, t \in TTLs : Quiet(p) /\ IssueStart(p, u, t)
    \/ \E p \in Procs : IssueCreate(p)
    \/ \E p \in Procs : IssuePost(p)
    \/ \E p \in Procs, k \in Presentable : Quiet(p) /\ GetKey(p, k)
    \/ \E p \in Procs, m \in {"POST", "GET"}, v \in LimitParams : Quiet(p) /\ cleanup(p, m, v)
    \/ \E p \in Procs : CleanupRun(p)
    \/ \E p \in Procs : Return(p)

SpecAdmin == Init /\ [][NextAdmin]_vars

TypeOK ==
    /\ clock \in Times
    /\ DOMAIN store \subseteq Keys
    /\ DOMAIN cache \subseteq Keys \cup {NoKey}
    /\ known \subseteq DOMAIN issued
    /\ DOMAIN issued \subseteq Keys
    /\ faults \in 0..MaxFaults
    /\ \A k \in DOMAIN lastNeg :
          lastNeg[k] = <<>> \/ (lastNeg[k][1].at \in Times /\ lastNeg[k][1].outcome # "authorized")

\* concurrent workers, the store does not fail; a client may present in
\* X-API-Key the string of a key before IssueTemporaryKey has generated it
NextGuess ==
    \/ Tick
    \/ \E p \in Procs : WorkerStep(p)
    \/ \E p \in Procs, k \in Keys : VacStart(p, k)

SpecGuess == Init /\ [][NextGuess]_vars

\* ------------------------------------------------------- hashIdentifier
\* sha256.Sum256 on the values of the model: the 32 bytes of the digest
Sum256(value) ==
    CASE value = "" ->
           <<227, 176, 196, 66, 152, 252, 28, 20, 154, 251, 244, 200, 153, 111, 185, 36,
             39, 174, 65, 228, 100, 155, 147, 76, 164, 149, 153, 27, 120, 82, 184, 85>>
      [] value = "admin" ->
           <<140, 105, 118, 229, 181, 65, 4, 21, 189, 233, 8, 189, 77, 238, 21, 223,
             177, 103, 169, 200, 115, 252, 75, 184, 168, 31, 111, 42, 180, 72, 169, 24>>
      [] value = "k1" ->
           <<106, 185, 241, 235, 143, 125, 51, 136, 244, 249, 213, 134, 246, 110, 153, 253,
             84, 8, 13, 242, 196, 70, 240, 229, 134, 104, 176, 156, 8, 161, 109, 208>>

\* the alphabet of base64.URLEncoding
encodeURL ==
    <<"A", "B", "C", "D", "E", "F", "G", "H", "I", "J", "K", "L", "M", "N", "O", "P",
      "Q", "R", "S", "T", "U", "V", "W", "X", "Y", "Z", "a", "b", "c", "d", "e", "f",
      "g", "h", "i", "j", "k", "l", "m", "n", "o", "p", "q", "r", "s", "t", "u", "v",
      "w", "x", "y", "z", "0", "1", "2", "3", "4", "5", "6", "7", "8", "9", "-", "_">>

\* the character of a 6-bit value
Char64(v) == encodeURL[(v % 64) + 1]

\* base64.RawURLEncoding.EncodeToString: four characters for every three
\* bytes, three characters for two remaining bytes, two for one, no padding
RECURSIVE EncodeToString(_)
EncodeToString(src) ==
    IF Len(src) = 0 THEN <<>>
    ELSE IF Len(src) = 1
    THEN LET v == src[1] * 16
         IN <<Char64(v \div 64), Char64(v)>>
    ELSE IF Len(src) = 2
    THEN LET v == (src[1] * 256 + src[2]) * 4
         IN <<Char64(v \div 4096), Char64(v \div 64), Char64(v)>>
    ELSE LET v == src[1] * 65536 + src[2] * 256 + src[3]
         IN <<Char64(v \div 262144), Char64(v \div 4096), Char64(v \div 64), Char64(v)>>
            \o EncodeToString(SubSeq(src, 4, Len(src)))

\* (mutant) the prefix is cut whenever it is shorter than the encoding
HashIdentifierCutsAtZero(value, prefix) ==
    LET encoded == EncodeToString(Sum256(value))
    IN IF prefix < Len(encoded) THEN SubSeq(encoded, 1, prefix) ELSE encoded

\* hashIdentifier(value, prefix) on strings: the encoded digest, cut to
\* prefix characters when 0 < prefix < len(encoded)
HashIdentifier(value, prefix) ==
    LET encoded == EncodeToString(Sum256(value))
    IN IF prefix > 0 /\ prefix < Len(encoded) THEN SubSeq(encoded, 1, prefix) ELSE encoded

HashValues == {"", "admin", "k1"}

\* prefix lengths up to one more than the length of an encoded digest
HashPrefixes == 0..(Len(EncodeToString(Sum256(""))) + 1)

\* one call of hashIdentifier
HashCall(p, value, prefix) ==
    /\ proc[p].pc = "idle"
    /\ Set(p, [IdleRec EXCEPT !.pc = "done", !.op = "hash",
                              !.req = <<[value |-> value, prefix |-> prefix]>>,
                              !.res = <<HashIdentifier(value, prefix)>>])
    /\ UNCHANGED <<clock, store, issued, known, cache, authCount, revokeRet,
                   faults, lastNeg, admin>>

NextHash ==
    \/ \E p \in Procs, value \in HashValues, prefix \in HashPrefixes :
          HashCall(p, value, prefix)
    \/ \E p \in Procs : Return(p)

SpecHash == Init /\ [][NextHash]_vars

\* ================================================================ claims

\* C1: for every temporary key, under every interleaving of concurrent
\* ValidateAndConsume, Revoke, CleanupExpired and retried store attempts, the
\* number of ValidateAndConsume calls that returned authorized never exceeds
\* the usage limit the key was issued with.
C1_AuthorizedAtMostMaxUsage ==
    \A k \in Keys :
        authCount[k] <= (IF k \in DOMAIN issued THEN issued[k] ELSE 0)

\* the limit of a key with more than one use is reached and a further call is refused
C1_Witness ==
    \E k \in DOMAIN issued, p \in Procs :
        /\ issued[k] > 1
        /\ authCount[k] = issued[k]
        /\ proc[p].pc = "done" /\ proc[p].op = "vac" /\ proc[p].key = k
        /\ proc[p].outcome = "exhausted"

\* two finished ValidateAndConsume calls of the two workers on one key, each of
\* which called Repository.Consume while the key was active with one use left
\* (so neither had committed when the other was called)
LastUseRace(p, q) ==
    /\ p # q
    /\ proc[p].pc = "done" /\ proc[p].op = "vac"
    /\ proc[q].pc = "done" /\ proc[q].op = "vac"
    /\ proc[p].key = proc[q].key
    /\ proc[p].rem0 = 1 /\ proc[q].rem0 = 1

C3_SequentialConsumes ==
    \A p \in Procs :
        LET k == proc[p].key IN
        (/\ proc[p].pc = "done" /\ proc[p].op = "vac"
         /\ k \in DOMAIN store
         /\ store[k].rev = <<>>
         /\ clock < store[k].exp)
        => IF proc[p].outcome = "authorized"
           THEN /\ authCount[k] \in 1..store[k].max
                /\ proc[p].res = <<store[k]>>
                /\ store[k].rem = store[k].max - authCount[k]
                /\ proc[p].status = 200
           ELSE /\ proc[p].outcome = "exhausted"
                /\ proc[p].status = 429
                /\ authCount[k] = store[k].max
                /\ store[k].rem = 0

\* a key with two uses has been used twice and the third call is answered 429
C3_Witness ==
    \E p \in Procs :
        LET k == proc[p].key IN
        /\ proc[p].pc = "done" /\ proc[p].op = "vac"
        /\ k \in DOMAIN store /\ store[k].rev = <<>> /\ clock < store[k].exp
        /\ store[k].max = 2 /\ authCount[k] = 2
        /\ proc[p].outcome = "exhausted" /\ proc[p].status = 429

\* C4 (as stated): once Revoke(K) has returned successfully, every
\* ValidateAndConsume(K) that starts afterwards returns revoked for as long as
\* K's record has not been deleted.
C4_RevokedAfterRevoke ==
    \A p \in Procs :
        (/\ proc[p].pc = "done" /\ proc[p].op = "vac"
         /\ proc[p].afterRevoke
         /\ proc[p].key \in DOMAIN store)
        => proc[p].outcome = "revoked"

\* C5: Revoke and Consume transactions on one key are serialized: a Consume
\* commit that finds the record revoked writes nothing and does not succeed,
\* and the revoked record it leaves in place has remaining_usage 0.
C5_NoConsumeCommitAfterRevoke ==
    [][\A p \in Procs :
          LET k == proc[p].key IN
          (/\ proc[p].pc = "vac_commit"
           /\ proc'[p] # proc[p]
           /\ k \in DOMAIN store
           /\ store[k].rev # <<>>)
          => /\ store' = store
             /\ store[k].rem = 0
             /\ proc'[p].res = <<>>
             /\ proc'[p].err # "nil"]_vars

\* a Consume transaction is about to commit with a snapshot read before the
\* Revoke that has since committed
C5_Witness ==
    \E p \in Procs :
        LET k == proc[p].key IN
        /\ proc[p].pc = "vac_commit"
        /\ proc[p].snap # <<>> /\ proc[p].snap[1].rev = <<>> /\ proc[p].snap[1].rem > 0
        /\ k \in DOMAIN store /\ store[k].rev # <<>> /\ store[k].rem = 0

\* C6 (as stated): Consume(key, now) decrements remaining_usage only if, at
\* the transaction's read, revoked_at is nil, expires_at > now and
\* remaining_usage > 0 (so not at now = expires_at).
C6_DecrementOnlyBeforeExpiry ==
    [][\A p \in Procs :
          (/\ proc[p].pc = "vac_commit"
           /\ proc'[p].pc = "vac_post"
           /\ proc'[p].err = "nil")
          => /\ proc[p].snap[1].rev = <<>>
             /\ proc[p].snap[1].exp > proc[p].now
             /\ proc[p].snap[1].rem > 0]_vars

\* C7: in every reachable state every stored record has
\* 0 <= remaining_usage <= max_usage.
C7_RemainingWithinBounds ==
    \A k \in DOMAIN store : 0 <= store[k].rem /\ store[k].rem <= store[k].max

\* a key with two uses has been consumed down to zero without being revoked
C7_Witness ==
    \E k \in DOMAIN store :
        /\ store[k].max = 2 /\ store[k].rem = 0 /\ store[k].rev = <<>>
        /\ authCount[k] > 0

\* C8: once revoked_at is set on a stored record no later step clears or
\* changes it, and every record with revoked_at set has remaining_usage 0.
C8_RevokedAtPermanent ==
    /\ [](\A k \in DOMAIN store : store[k].rev # <<>> => store[k].rem = 0)
    /\ [][\A k \in DOMAIN store :
             (store[k].rev # <<>> /\ k \in DOMAIN store')
             => store'[k].rev = store[k].rev]_vars

\* a second Revoke transaction, called at a later time than the stored
\* revoked_at, has committed
C8_Witness ==
    \E p \in Procs :
        LET k == proc[p].key IN
        /\ proc[p].op = "revoke" /\ proc[p].pc = "rev_post" /\ proc[p].err = "nil"
        /\ proc[p].afterRevoke
        /\ k \in DOMAIN store /\ store[k].rev # <<>> /\ store[k].rev[1] < clock

\* C9: the status the admin GET reports is fixed by (revoked_at, expires_at,
\* remaining_usage, now) in the precedence revoked, expired, exhausted, active.
C9_StatusPrecedence ==
    \A p \in Procs :
        (proc[p].pc = "done" /\ proc[p].op = "get" /\ proc[p].res # <<>>)
        => LET r == proc[p].res[1]
               n == proc[p].now
               st == proc[p].outcome
           IN /\ (r.rev # <<>>) => st = "revoked"
              /\ (r.rev = <<>> /\ n > r.exp) => st = "expired"
              /\ (r.rev = <<>> /\ n <= r.exp /\ r.rem <= 0) => st = "exhausted"
              /\ (r.rev = <<>> /\ n <= r.exp /\ r.rem > 0) => st = "active"

\* a record that is both revoked and expired is reported revoked
C9_Witness ==
    \E p \in Procs :
        /\ proc[p].pc = "done" /\ proc[p].op = "get" /\ proc[p].res # <<>>
        /\ proc[p].res[1].rev # <<>>
        /\ proc[p].now > proc[p].res[1].exp
        /\ proc[p].outcome = "revoked"

\* C10: one request at a time against a store that does not fail: a Revoke of
\* a key whose record exists and that an earlier Revoke has already revoked
\* answers 200 with the record the first Revoke returned (same revoked_at,
\* remaining_usage 0), and the stored record is still that record.
C10_RevokeIdempotent ==
    \A p \in Procs :
        LET k == proc[p].key IN
        (/\ proc[p].pc = "done" /\ proc[p].op = "revoke"
         /\ proc[p].afterRevoke
         /\ k \in DOMAIN store)
        => /\ proc[p].status = 200
           /\ proc[p].res = revokeRet[k]
           /\ proc[p].res = <<store[k]>>
           /\ store[k].rem = 0

\* the second Revoke answered 200 at a later time than the first
C10_Witness ==
    \E p \in Procs :
        LET k == proc[p].key IN
        /\ proc[p].pc = "done" /\ proc[p].op = "revoke" /\ proc[p].afterRevoke
        /\ proc[p].status = 200
        /\ revokeRet[k] # <<>> /\ proc[p].res = revokeRet[k]
        /\ revokeRet[k][1].rev[1] < clock

\* C11: in every reachable state the decision cache holds no entry whose
\* outcome is authorized, and a ValidateAndConsume call whose outcome is
\* authorized was not answered from the cache: it holds the record that a
\* successful Repository.Consume of that same call returned.
C11_AuthorizedNeverCached ==
    /\ \A k \in DOMAIN cache : cache[k].outcome # "authorized"
    /\ \A p \in Procs :
          (proc[p].op = "vac" /\ proc[p].outcome = "authorized")
          => /\ ~proc[p].hit
             /\ proc[p].err = "nil"
             /\ proc[p].res # <<>>

\* a second success on one key: it came from the store and left no cache entry
C11_Witness ==
    \E p \in Procs :
        /\ proc[p].pc = "done" /\ proc[p].op = "vac"
        /\ proc[p].outcome = "authorized" /\ ~proc[p].hit
        /\ authCount[proc[p].key] = 2
        /\ proc[p].key \notin DOMAIN cache

\* a ValidateAndConsume call starts in this step
VacCalled(p) == proc[p].pc = "idle" /\ proc'[p].op = "vac"

\* the cache entry of key k is the one recorded in lastNeg[k]
EntryInPlace(k) ==
    /\ lastNeg[k] # <<>>
    /\ k \in DOMAIN cache
    /\ cache[k].outcome = lastNeg[k][1].outcome
    /\ cache[k].expiresAt = lastNeg[k][1].at + EntryTTL(lastNeg[k][1].outcome)

\* the call that recorded lastNeg[k] has returned: it is not still deleting the
\* expired record
NegativeReturned(k) ==
    /\ lastNeg[k] # <<>>
    /\ \A q \in Procs : ~(proc[q].pc = "vac_delete" /\ proc[q].key = k)

\* C12 (as stated): after ValidateAndConsume(K) returned a negative outcome
\* obtained from the store, every further ValidateAndConsume(K) within the
\* entry's TTL returns that same outcome from the cache.
C12_SameOutcomeWithinTTL ==
    [][\A p \in Procs :
          LET k == proc'[p].key IN
          (/\ VacCalled(p)
           /\ NegativeReturned(k)
           /\ clock <= lastNeg[k][1].at + EntryTTL(lastNeg[k][1].outcome))
          => /\ proc'[p].pc = "done"
             /\ proc'[p].outcome = lastNeg[k][1].outcome]_vars

\* C12 (amended): a negative outcome obtained from the store is cached for
\* its TTL (5 s for error, 30 s otherwise); a ValidateAndConsume(K) that
\* starts within that TTL while the entry has not been replaced or removed
\* returns the same outcome without calling Repository.Consume; a call that
\* starts after the TTL of the entry it finds evicts it and goes to the
\* repository, and so does a call that finds no entry.
C12_CachedOutcomeWhileEntryInPlace ==
    [][\A p \in Procs :
          LET k == proc'[p].key IN
          /\ (lastNeg'[k] # lastNeg[k] /\ lastNeg'[k] # <<>>)
             => /\ k \in DOMAIN cache'
                /\ cache'[k].outcome = lastNeg'[k][1].outcome
                /\ cache'[k].expiresAt =
                      clock + (IF cache'[k].outcome = "error"
                               THEN ErrorCacheTTL ELSE NegativeCacheTTL)
          /\ (VacCalled(p) /\ EntryInPlace(k) /\ clock <= cache[k].expiresAt)
             => /\ proc'[p].pc = "done"
                /\ proc'[p].hit
                /\ proc'[p].outcome = lastNeg[k][1].outcome
                /\ proc'[p].res = <<>>
                /\ store' = store /\ cache' = cache
          /\ (VacCalled(p) /\ k \in DOMAIN cache /\ clock > cache[k].expiresAt)
             => proc'[p].pc = "vac_evict"
          /\ (VacCalled(p) /\ k \notin DOMAIN cache)
             => proc'[p].pc = "vac_read"]_vars

\* a call is answered error from the cache, within the TTL of the entry that
\* an earlier call wrote after the store had failed it three times
C12_Witness ==
    \E p \in Procs :
        LET k == proc[p].key IN
        /\ proc[p].pc = "done" /\ proc[p].op = "vac" /\ proc[p].hit
        /\ proc[p].outcome = "error"
        /\ EntryInPlace(k) /\ lastNeg[k][1].outcome = "error"
        /\ k \in DOMAIN store /\ ActiveRemaining(k, clock) > 0

MwCalled(p) == proc[p].pc = "idle" /\ proc'[p].op \in {"vac", "mw"}

\* C14: the middleware answers every validation outcome with a fixed
\* response: authorized is forwarded to the next handler, unauthorized is 401
\* 'unauthorized', expired and revoked are 403 'key inactive', exhausted is
\* 429 'usage limit reached', error is 503 'service unavailable'; the next
\* handler runs only for authorized or for a static key.
C14_OutcomeToResponse ==
    \A p \in Procs :
        LET r == proc[p]
            o == proc[p].outcome
        IN (r.pc = "done" /\ r.op \in {"vac", "mw"})
           => /\ r.op = "vac" => o \in {"authorized", "unauthorized", "expired",
                                       "revoked", "exhausted", "error"}
              /\ o = "authorized" => r.fwd
              /\ o = "unauthorized"
                    => ~r.fwd /\ r.status = 401 /\ r.msg = "unauthorized"
              /\ o \in {"expired", "revoked"}
                    => ~r.fwd /\ r.status = 403 /\ r.msg = "key inactive"
              /\ o = "exhausted"
                    => ~r.fwd /\ r.status = 429 /\ r.msg = "usage limit reached"
              /\ o = "error"
                    => ~r.fwd /\ r.status = 503 /\ r.msg = "service unavailable"
              /\ r.fwd => (o = "authorized" \/ (r.op = "mw" /\ r.key \in StaticKeys))

\* an expired key is answered 403 'key inactive' and not forwarded
C14_Witness ==
    \E p \in Procs :
        /\ proc[p].pc = "done" /\ proc[p].op = "vac" /\ ~proc[p].hit
        /\ proc[p].outcome = "expired" /\ proc[p].status = 403
        /\ proc[p].msg = "key inactive" /\ ~proc[p].fwd

\* C15: a request without (or with an empty) X-API-Key header, and a request
\* whose key is not static while feature_enabled is false or no key service is
\* configured, is answered 401 'unauthorized'; the next handler is not called,
\* ValidateAndConsume is not invoked, and store and cache are left alone.
C15_RejectedBeforeValidation ==
    [][\A p \in Procs :
          LET r == proc'[p] IN
          (/\ MwCalled(p)
           /\ \/ r.key = NoHeader
              \/ r.key \notin StaticKeys /\ ~(r.cfg.feature /\ r.cfg.service))
          => /\ r.op = "mw" /\ r.pc = "done"
             /\ r.status = 401 /\ r.msg = "unauthorized"
             /\ ~r.fwd
             /\ r.outcome = "none" /\ r.res = <<>>
             /\ UNCHANGED <<store, cache, authCount, lastNeg, admin>>]_vars

\* a key that would be authorized is refused because the feature is off
C15_Witness ==
    \E p \in Procs :
        LET k == proc[p].key IN
        /\ proc[p].pc = "done" /\ proc[p].op = "mw" /\ proc[p].status = 401
        /\ ~proc[p].cfg.feature /\ proc[p].cfg.service
        /\ k \in known /\ ActiveRemaining(k, clock) > 0
        /\ k \notin DOMAIN cache

\* C16: a request whose X-API-Key is a configured static key is forwarded to
\* the next handler whatever feature_enabled is, without ValidateAndConsume:
\* store, cache and every key's remaining_usage are unchanged, so every such
\* request succeeds.
C16_StaticKeyForwarded ==
    [][\A p \in Procs :
          LET r == proc'[p] IN
          (MwCalled(p) /\ r.key \in StaticKeys)
          => /\ r.op = "mw" /\ r.pc = "done"
             /\ r.fwd /\ r.status = 200 /\ r.msg = ""
             /\ r.outcome = "none"
             /\ UNCHANGED <<store, cache, authCount, lastNeg, admin>>]_vars

\* a static key is forwarded by a middleware whose feature is off, while a
\* temporary key is stored with all its uses left
C16_Witness ==
    \E p \in Procs :
        /\ proc[p].pc = "done" /\ proc[p].op = "mw" /\ proc[p].key \in StaticKeys
        /\ proc[p].fwd /\ ~proc[p].cfg.feature
        /\ \E k \in DOMAIN store : store[k].rem = store[k].max /\ authCount[k] = 0

\* C17: the response carries Retry-After exactly when the outcome is error,
\* and its value is the configured retry_after in whole seconds, 5 when none
\* is configured.
C17_RetryAfterOnlyOnError ==
    \A p \in Procs :
        LET r == proc[p] IN
        (r.pc = "done" /\ r.op \in {"vac", "mw"})
        => /\ (r.retry # <<>>) <=> (r.outcome = "error")
           /\ r.outcome = "error"
                 => r.retry = <<IF r.cfg.retryAfter = 0 THEN 5
                                ELSE r.cfg.retryAfter \div 1000>>

\* an error answered by a middleware configured with 1.5 s carries Retry-After: 1
C17_Witness ==
    \E p \in Procs :
        /\ proc[p].pc = "done" /\ proc[p].op = "vac"
        /\ proc[p].outcome = "error" /\ proc[p].status = 503
        /\ proc[p].cfg.retryAfter = 1500 /\ proc[p].retry = <<1>>

\* an issue request answered 201 whose response is still held
IssueDone(p) ==
    /\ proc[p].pc = "done"
    /\ proc[p].op = "issue"
    /\ proc[p].status = StatusCreated

\* the record a Get must return for the request behind the response of p
RoundTripRecord(p) ==
    LET i == proc[p].issue[1]
    IN [label |-> i.label, max |-> i.usage, rem |-> i.usage, created |-> i.at,
        exp |-> i.at + i.ttl, rev |-> <<>>]

HandlerIssue(p) ==
    /\ proc[p].pc # "idle"
    /\ proc[p].op = "issue"
    /\ proc[p].req # <<>>
    /\ proc[p].req[1].method = "POST"
    /\ proc[p].req[1].body # "invalid"

\* C19: POST /admin/api-keys takes usageLimit (10 when absent) in 1..1000 and
\* ttlMinutes (10080 when absent) in 15..10080: a request inside both ranges
\* calls IssueTemporaryKey with these values and is answered 201; a request
\* outside either range is answered 400 and IssueTemporaryKey is not called.
C19_IssueRangeChecked ==
    \A p \in Procs :
       HandlerIssue(p) =>
          LET r == proc[p].req[1]
              u == IF r.usage = <<>> THEN 10 ELSE r.usage[1]
              t == IF r.ttl = <<>> THEN 10080 ELSE r.ttl[1]
          IN IF u \in 1..1000 /\ t \in 15..10080
             THEN /\ proc[p].issue # <<>>
                  /\ proc[p].issue[1].usage = u
                  /\ proc[p].issue[1].ttl = 2 * t
                  /\ proc[p].pc = "done" => proc[p].status = 201
             ELSE /\ proc[p].pc = "done"
                  /\ proc[p].status = 400
                  /\ proc[p].issue = <<>>
                  /\ proc[p].key = NoKey
                  /\ proc[p].res = <<>>

\* the boundary request usageLimit 1, ttlMinutes 15 answered 201 with its
\* key stored, and the request usageLimit 1001 answered 400
C19_Witness ==
    \E p, q \in Procs :
       /\ HandlerIssue(p) /\ proc[p].pc = "done"
       /\ proc[p].req[1].usage = <<1>> /\ proc[p].req[1].ttl = <<15>>
       /\ proc[p].status = StatusCreated
       /\ proc[p].key \in DOMAIN store
       /\ store[proc[p].key].max = 1
       /\ store[proc[p].key].exp = proc[p].issue[1].at + 30
       /\ HandlerIssue(q) /\ proc[q].pc = "done"
       /\ proc[q].req[1].usage = <<1001>>
       /\ proc[q].status = StatusBadRequest
       /\ proc[q].msg = "usageLimit out of range"

\* a cleanup request that came through the handler with method POST
HandlerCleanup(p) ==
    /\ proc[p].pc # "idle"
    /\ proc[p].op = "cleanup"
    /\ proc[p].req # <<>>
    /\ proc[p].req[1].method = "POST"

\* C20: POST /admin/api-keys/cleanup hands CleanupExpired a limit in 1..200:
\* a number in 1..200 as given, a number above 200 as 200, and a missing,
\* unparsable, zero or negative value as 200; the request is answered 200
\* with deleted = the number of records the service deleted.
C20_CleanupLimitClamped ==
    /\ [] \A p \in Procs :
          HandlerCleanup(p) =>
             LET v == proc[p].req[1].limit
                 passed == proc[p].req[1].passed
             IN /\ passed \in 1..200
                /\ (v.kind = "int" /\ v.n \in 1..200) => passed = v.n
                /\ (v.kind = "int" /\ v.n > 200) => passed = 200
                /\ (v.kind # "int" \/ v.n <= 0) => passed = 200
                /\ proc[p].pc = "cln_run" => proc[p].limit = passed
                /\ proc[p].pc = "done" =>
                      /\ proc[p].status = 200
                      /\ proc[p].count \in 0..passed
    /\ [][\A p \in Procs :
             (HandlerCleanup(p) /\ proc[p].pc = "cln_run" /\ proc'[p].pc = "done") =>
                /\ proc'[p].count = Cardinality(DOMAIN store \ DOMAIN store')
                /\ DOMAIN store' \subseteq DOMAIN store]_vars

\* a cleanup with limit=500 that ran with limit 200 and deleted one expired
\* key, answered 200 with deleted = 1
C20_Witness ==
    \E p \in Procs :
       /\ HandlerCleanup(p) /\ proc[p].pc = "done"
       /\ proc[p].req[1].limit = [kind |-> "int", n |-> 500]
       /\ proc[p].req[1].passed = 200
       /\ proc[p].status = StatusOK
       /\ proc[p].count = 1
       /\ known # {} /\ store = <<>>

\* an admin request that passed AdminAuthMiddleware and has been answered
AdminAnswered(p) ==
    /\ proc[p].pc = "done"
    /\ proc[p].http # <<>>
    /\ proc[p].operator # NoOperator

\* the four supported admin operations
SupportedRoute(method, path) ==
    \/ method = "POST" /\ path.kind \in {"keys", "revoke", "cleanup"}
    \/ method = "GET" /\ path.kind = "key"

\* C21 (as stated): every authenticated admin request whose method and path
\* are not one of the four supported operations is answered 404 with the
\* JSON body {"error":"not found"}, and no admin route answers 405.
C21_UnsupportedRouteNotFound ==
    \A p \in Procs :
       AdminAnswered(p) =>
          /\ proc[p].status # 405
          /\ ~SupportedRoute(proc[p].http[1].method, proc[p].http[1].path) =>
                /\ proc[p].status = 404
                /\ proc[p].msg = "not found"
                /\ ~proc[p].plain

\* the limiter entry of the client address of the request p has just made
EntryOf(p) ==
    LET ip == proc'[p].http[1].ip
    IN admin'.limiters[IF ip = "" THEN "unknown" ELSE ip]

\* C22: with burst B and one token per hour, the first B admin requests of
\* a client address pass the rate limiter (they are answered by the key
\* check or a handler), and every later request of that address is answered
\* 429 'rate limit exceeded' without its admin key being looked at and
\* without reaching the admin handler.
C22_BurstThenRateLimited ==
    [][\A p \in Procs :
          (proc[p].pc = "idle" /\ proc'[p].http # <<>>) =>
             IF EntryOf(p).metered <= admin.cfg.burst
             THEN /\ proc'[p].status # 429
                  /\ proc'[p].pc = "routed" \/ proc'[p].status = 401
             ELSE /\ proc'[p].pc = "done"
                  /\ proc'[p].status = 429
                  /\ proc'[p].msg = "rate limit exceeded"
                  /\ proc'[p].operator = NoOperator
                  /\ proc'[p].op = "admin"]_vars

\* burst 2: the third request of an address, with a valid admin key, was
\* answered 429 while another address has made one request that passed
C22_Witness ==
    \E p \in Procs :
       /\ admin.cfg.burst = 2
       /\ proc[p].pc = "done" /\ proc[p].status = StatusTooManyRequests
       /\ proc[p].http[1].ip = "10.0.0.1"
       /\ proc[p].http[1].adminKey = MasterKey
       /\ admin.limiters["10.0.0.1"].metered = 3
       /\ admin.limiters["10.0.0.1"].tokens < TokenUnit
       /\ "unknown" \in DOMAIN admin.limiters
       /\ admin.limiters["unknown"].metered = 1

\* C23 (as stated): a request is forwarded to the admin handler only if its
\* X-Admin-Key is non-empty and in master_keys, the operator in its context
\* is then that key, and every request with a missing header or a key
\* outside master_keys is answered 401 'unauthorized'.
C23_AdminKeyOr401 ==
    \A p \in Procs :
       proc[p].http # <<>> =>
          LET h == proc[p].http[1]
          IN /\ proc[p].operator # NoOperator =>
                   /\ h.adminKey # NoHeader
                   /\ h.adminKey \in MasterKeys
                   /\ proc[p].operator = h.adminKey
             /\ (h.adminKey = NoHeader \/ h.adminKey \notin MasterKeys) =>
                   /\ proc[p].pc = "done"
                   /\ proc[p].op = "admin"
                   /\ proc[p].status = 401
                   /\ proc[p].msg = "unauthorized"

\* C23: of the requests the rate limiter lets pass, AdminAuthMiddleware
\* forwards exactly those whose X-Admin-Key is non-empty and in master_keys,
\* with that key as the operator of the request, and answers the others 401
\* 'unauthorized' without invoking the handler; a request the rate limiter
\* rejects is answered 429 whatever its header. Only forwarded requests
\* reach a handler.
C23_AdminKeyAfterRateLimit ==
    /\ [] \A p \in Procs :
          (proc[p].http # <<>> /\ (proc[p].operator # NoOperator \/ proc[p].op # "admin")) =>
             /\ proc[p].http[1].adminKey \in MasterKeys
             /\ proc[p].http[1].adminKey # NoHeader
             /\ proc[p].operator = proc[p].http[1].adminKey
    /\ [][\A p \in Procs :
             (proc[p].pc = "idle" /\ proc'[p].http # <<>>) =>
                LET h == proc'[p].http[1]
                IN IF ~IpAllow(admin.limiters, admin.cfg, h.ip, clock).ok
                   THEN /\ proc'[p].pc = "done"
                        /\ proc'[p].status = 429
                        /\ proc'[p].operator = NoOperator
                   ELSE IF h.adminKey # NoHeader /\ h.adminKey \in MasterKeys
                   THEN /\ proc'[p].pc = "routed"
                        /\ proc'[p].operator = h.adminKey
                   ELSE /\ proc'[p].pc = "done"
                        /\ proc'[p].op = "admin"
                        /\ proc'[p].status = 401
                        /\ proc'[p].msg = "unauthorized"
                        /\ proc'[p].operator = NoOperator]_vars

\* a request with the master key was forwarded and issued a key for that
\* operator
C23_Witness ==
    \E p \in Procs :
       /\ proc[p].pc = "done" /\ proc[p].op = "issue"
       /\ proc[p].status = StatusCreated
       /\ proc[p].http # <<>>
       /\ proc[p].http[1].adminKey = MasterKey
       /\ proc[p].operator = MasterKey
       /\ hashIdentifier(MasterKey) \in UNION {l.args : l \in proc[p].log}

\* the secrets of the service: the temporary keys issued so far and the
\* administrator keys
Secrets == DOMAIN issued \cup MasterKeys

\* C24 (as stated): no log line and no metric label written for a request
\* contains the raw value of a temporary key or of an administrator key.
C24_NoRawKeyLogged ==
    \A p \in Procs :
       \A line \in LinesOf(p) :
          \A a \in line.args : a.kind = "raw" => a.v \notin Secrets

\* the convert handler has answered a POST that the middleware forwarded
ConvertAnswered(p) ==
    /\ proc[p].pc = "done" /\ proc[p].op = "convert"
    /\ proc[p].req[1].method = "POST"

\* C25: for an authorized POST /convert the converter is invoked only when
\* the body is within the size cap, the file field is present and the file
\* name ends in .pdf (in any letter case); a form over the cap is answered 413
\* 'file too large', a form without the file field 400 'file field is
\* required', a file of another extension 400 'file must be a pdf'; a failure
\* of the converter is answered 400 'pdf has no pages', 408 'request canceled'
\* for a cancelled or timed-out context, and 500 'failed to convert pdf'
\* otherwise.
C25_ConvertChecksAndErrors ==
    \A p \in Procs :
        ConvertAnswered(p) =>
            LET r == proc[p]
                q == proc[p].req[1]
                u == proc[p].req[1].upload
                within == u.bodySize <= maxFileSize
                isPdf == u.name.ext \in {".pdf", ".PDF"}
            IN /\ r.invoked <=> q.conv # "not called"
               /\ r.invoked => (within /\ u.hasFile /\ isPdf)
               /\ (u.multipart /\ ~within)
                     => (r.status = 413 /\ r.msg = "file too large")
               /\ (u.multipart /\ within /\ ~u.hasFile)
                     => (r.status = 400 /\ r.msg = "file field is required")
               /\ (u.multipart /\ within /\ u.hasFile /\ ~isPdf)
                     => (r.status = 400 /\ r.msg = "file must be a pdf")
               /\ q.conv = "no pages"
                     => (r.status = 400 /\ r.msg = "pdf has no pages")
               /\ q.conv \in {"canceled", "deadline exceeded"}
                     => (r.status = 408 /\ r.msg = "request canceled")
               /\ q.conv = "render failed"
                     => (r.status = 500 /\ r.msg = "failed to convert pdf")
               /\ q.conv = "nil" => (r.status = 200 /\ r.msg = "")

\* a request with a temporary key was authorized, its upload passed every
\* check, and the converter failed because the context was cancelled
C25_Witness ==
    \E p \in Procs :
        /\ ConvertAnswered(p) /\ proc[p].outcome = "authorized"
        /\ proc[p].key \in DOMAIN issued
        /\ proc[p].invoked /\ proc[p].req[1].conv = "canceled"
        /\ proc[p].req[1].upload.name.ext = ".PDF"
        /\ proc[p].status = 408 /\ proc[p].msg = "request canceled"


\* worker p takes the step, from position pc, on key k
StepOf(p, pc, k) ==
    proc[p].pc = pc /\ proc[p].key = k /\ proc'[p] # proc[p]

C26_CreateOnExistingFailed ==
    \E q \in Procs :
        /\ proc[q].op = "issue" /\ proc[q].err = "already_exists"
        /\ proc[q].key \in DOMAIN store

\* C27 (as stated): for every integer limit, KeyService.CleanupExpired(limit)
\* calls Repository.DeleteExpired with min(limit, 200) when limit > 0 and with
\* 200 when limit <= 0, so the repository is never asked to delete more than
\* 200 records in one call.
C27_ServiceLimitAtMostDefault ==
    \A p \in Procs :
        (proc[p].op = "cleanup" /\ proc[p].pc = "cln_run")
           => proc[p].limit \in 1..200

\* the errors the specification lists as non-retryable
ListedNonRetryable ==
    {"ErrKeyNotFound", "ErrKeyExpired", "ErrKeyRevoked", "ErrKeyExhausted",
     "NotFound", "InvalidArgument", "FailedPrecondition", "PermissionDenied",
     "AlreadyExists"}

\* worker p makes an attempt in this step
Attempts(p) == proc[p].pc = "wr_attempt" /\ proc'[p].pc # "wr_attempt"

\* C28: withRetries calls the operation at most 3 times; it returns the
\* result of the first attempt that succeeds or fails with a listed
\* non-retryable error, goes on to the wait after every other error of the
\* first and second attempt, has waited 100 ms before the second attempt and
\* 200 ms before the third, and returns the error of the third attempt
\* without waiting again.
C28_BoundedRetries ==
    /\ [] \A p \in Procs :
            proc[p].op = "withRetries"
               => LET f == proc[p].wr[1]
                  IN /\ f.calls <= 3
                     /\ Len(f.waits) <= 2
                     /\ \A i \in 1..Len(f.waits) :
                           f.waits[i] = IF i = 1 THEN 100 ELSE 200
                     /\ proc[p].pc = "wr_attempt" => f.calls = Len(f.waits)
                     /\ proc[p].pc = "wr_backoff" => f.calls = Len(f.waits) + 1
    /\ [][ \A p \in Procs :
              Attempts(p)
                 => LET e == proc'[p].err
                        f == proc'[p].wr[1]
                    IN /\ f.calls = proc[p].wr[1].calls + 1
                       /\ f.waits = proc[p].wr[1].waits
                       /\ (e = "nil" \/ e \in ListedNonRetryable \/ f.calls = 3)
                             => (proc'[p].pc = "done" /\ f.ret = e)
                       /\ (e # "nil" /\ e \notin ListedNonRetryable /\ f.calls < 3)
                             => proc'[p].pc = "wr_backoff"
         ]_vars

\* the third attempt has failed with a retryable error after waits of 100 ms
\* and 200 ms, and that error is returned
C28_Witness ==
    \E p \in Procs :
        /\ proc[p].op = "withRetries" /\ proc[p].pc = "done"
        /\ proc[p].wr[1].calls = 3
        /\ proc[p].wr[1].waits = <<100, 200>>
        /\ proc[p].wr[1].ret = "Unavailable"

\* worker p leaves the wait through the case of the done context
ObservesCancel(p) == proc[p].pc = "wr_backoff" /\ proc'[p].pc = "done"

\* C29: when the caller's context is cancelled while the operation fails with
\* retryable errors, the exit of the backoff wait through ctx.Done() returns
\* ctx.Err() and not the error of the last attempt, no attempt follows it, and
\* a context that is done when the wait begins leaves no other exit.
C29_CancelEndsRetries ==
    [][ \A p \in Procs :
           /\ ObservesCancel(p)
                 => /\ proc[p].wr[1].ctx \in {"canceled", "deadline"}
                    /\ proc'[p].wr[1].ret =
                          (IF proc[p].wr[1].ctx = "canceled"
                           THEN "context canceled" ELSE "context deadline exceeded")
                    /\ proc'[p].wr[1].calls = proc[p].wr[1].calls
           /\ (proc[p].pc = "wr_backoff" /\ proc[p].wr[1].doneAtEntry)
                 => proc'[p].pc \in {"wr_backoff", "done"}
           /\ (proc[p].pc = "done" /\ proc[p].op = "withRetries")
                 => proc'[p] = proc[p]
      ]_vars

\* the context was cancelled during the wait after a first attempt that
\* failed with Unavailable; the call returned the context's error after one
\* attempt
C29_Witness ==
    \E p \in Procs :
        /\ proc[p].op = "withRetries" /\ proc[p].pc = "done"
        /\ proc[p].err = "Unavailable"
        /\ proc[p].wr[1].calls = 1 /\ ~proc[p].wr[1].doneAtEntry
        /\ proc[p].wr[1].ctx = "canceled"
        /\ proc[p].wr[1].ret = "context canceled"

\* ValidateAndConsume finishes for worker p after Consume returned
ConsumeReturned(p) == proc[p].pc = "vac_post" /\ proc'[p].pc # "vac_post"

\* C30: whenever Repository.Consume fails with an error that is none of
\* not_found, expired, revoked and exhausted (a store error that outlasted the
\* retries, a cancelled context, a passed deadline), ValidateAndConsume
\* returns the outcome error, caches error for the key with the 5 s TTL (less
\* than one tick: the entry expires at the time of the call), and the
\* middleware answers 503 'service unavailable' with Retry-After and does not
\* forward the request.
C30_StoreErrorIs503 ==
    [][ \A p \in Procs :
           (ConsumeReturned(p)
            /\ proc[p].err \notin {"nil", "not_found", "expired", "revoked", "exhausted"})
              => /\ proc'[p].outcome = "error"
                 /\ proc[p].key \in DOMAIN cache'
                 /\ cache'[proc[p].key] = [outcome |-> "error", expiresAt |-> clock]
                 /\ proc'[p].status = 503
                 /\ proc'[p].msg = "service unavailable"
                 /\ proc'[p].retry # <<>>
                 /\ ~proc'[p].fwd
                 /\ proc'[p].pc = "done"
      ]_vars

\* a request whose context was cancelled during the retries of Consume has
\* been answered 503 and the error is cached for its key
C30_Witness ==
    \E p \in Procs :
        /\ proc[p].pc = "done" /\ proc[p].op = "vac"
        /\ proc[p].err = "context canceled"
        /\ proc[p].outcome = "error" /\ proc[p].status = 503
        /\ proc[p].retry # <<>>
        /\ proc[p].key \in DOMAIN cache
        /\ cache[proc[p].key].outcome = "error"

\* DeleteExpired has returned without error for worker p
CleanupReturned(p) ==
    proc[p].op = "cleanup" /\ proc[p].pc = "done" /\ proc[p].err = "nil"

\* C31 (as stated): every DeleteExpired(now, limit) call that returns without
\* error returns a count equal to the number of records the call removed from
\* the store, also when one of its attempts failed and was retried.
C31_CountIsRemoved ==
    \A p \in Procs : CleanupReturned(p) => proc[p].count = proc[p].removed

\* the records the specification calls active at now
ActiveAt(now) ==
    {k \in DOMAIN store :
        store[k].rev = <<>> /\ store[k].exp > now /\ store[k].rem > 0}

\* C32 (as stated): every CountActive(now) call that returns without error
\* returns exactly the number of stored records with revoked_at unset,
\* expires_at > now and remaining_usage > 0, also when one of its attempts
\* failed part-way and was retried.
C32_CountIsActive ==
    [][ \A p \in Procs :
           (proc[p].pc = "cnt_run" /\ proc'[p].pc = "done" /\ proc'[p].err = "nil")
              => proc'[p].count = Cardinality(ActiveAt(proc[p].now))
      ]_vars

\* C33 (as stated): an entry of the per-IP limiter map that has not served a
\* request for more than 10 minutes is removed from the map, so that at any
\* time the map holds entries only for client IPs that sent an admin request
\* within the last 10 minutes.
C33_LimiterMapHoldsRecentOnly ==
    \A id \in DOMAIN admin.limiters : clock <= admin.limiters[id].expires

\* the client address the specification names for a request: the first
\* X-Forwarded-For entry if the header is present, else the peer, and
\* "unknown" when that is empty
NamedClient(h) ==
    LET a == IF h.src.xff # <<>> THEN h.src.xff[1].text ELSE h.src.remote.host
    IN IF a = "" THEN "unknown" ELSE a

\* the tokens, in units of 1/120, in the bucket of client id when a request
\* arrives at now, with one token per hour
Available(id) ==
    IF id \notin DOMAIN admin.limiters
    THEN admin.cfg.burst * 120
    ELSE LET t == admin.limiters[id].tokens + (clock - admin.limiters[id].last)
         IN IF t > admin.cfg.burst * 120 THEN admin.cfg.burst * 120 ELSE t

\* C34: the admin middleware consults the token bucket of the client IP
\* (first X-Forwarded-For entry, else the peer address) before it reads the
\* admin key: every request that finds a token takes it, whether its
\* X-Admin-Key is valid, invalid or missing, the buckets of other addresses
\* are not touched, and a request that finds no token is answered 429 'rate
\* limit exceeded' even when its admin key is valid.
C34_BucketBeforeKey ==
    [][ \A p \in Procs :
           (proc[p].pc = "idle" /\ proc'[p].http # <<>>)
              => LET id == NamedClient(proc'[p].http[1])
                 IN /\ id \in DOMAIN admin'.limiters
                    /\ \A x \in DOMAIN admin.limiters \ {id} :
                          admin'.limiters[x] = admin.limiters[x]
                    /\ DOMAIN admin'.limiters = DOMAIN admin.limiters \cup {id}
                    /\ IF Available(id) >= 120
                       THEN /\ admin'.limiters[id].tokens = Available(id) - 120
                            /\ proc'[p].status # 429
                            /\ proc'[p].http[1].adminKey \in MasterKeys
                                  <=> proc'[p].pc = "routed"
                       ELSE /\ admin'.limiters[id].tokens = admin.limiters[id].tokens
                            /\ proc'[p].pc = "done"
                            /\ proc'[p].status = 429
                            /\ proc'[p].msg = "rate limit exceeded"
                            /\ proc'[p].operator = NoOperator
      ]_vars

\* a request with a valid admin key, sent through a proxy, found the bucket
\* of the forwarded address empty and was answered 429; the bucket of the
\* proxy's own address was not touched
C34_Witness ==
    \E p \in Procs :
        /\ proc[p].pc = "done" /\ proc[p].op = "admin"
        /\ proc[p].status = 429
        /\ proc[p].http[1].adminKey = MasterKey
        /\ proc[p].http[1].src.xff # <<>>
        /\ proc[p].http[1].ip = "10.0.0.2"
        /\ admin.limiters["10.0.0.2"].tokens < 120
        /\ "10.0.0.1" \notin DOMAIN admin.limiters

\* C35: every ValidateAndConsume call that has returned incremented the
\* validation counter exactly once, under the label of the outcome it
\* returned, and no other label; a call still running has incremented
\* nothing yet; a middleware request that did not call the key service (static
\* key, missing header, feature disabled) incremented nothing.
C35_OneValidationIncrement ==
    \A p \in Procs :
        /\ (proc[p].op = "vac" /\ proc[p].pc = "done")
              => proc[p].inc = <<proc[p].outcome>>
        /\ (proc[p].op = "vac" /\ proc[p].pc # "done") => proc[p].inc = <<>>
        /\ proc[p].op = "mw" => proc[p].inc = <<>>

\* a call answered from the cache, a call the store authorized, a call the
\* store failed and a call that deleted an expired key have each returned
C35_HitReturned ==
    \E p \in Procs :
        proc[p].op = "vac" /\ proc[p].pc = "done" /\ proc[p].hit
        /\ proc[p].inc = <<"exhausted">>

C35_Witness ==
    \E p \in Procs :
        /\ proc[p].op = "vac" /\ proc[p].pc = "done" /\ ~proc[p].hit
        /\ proc[p].outcome = "error" /\ proc[p].inc = <<"error">>

C35_ExpiredReturned ==
    \E p \in Procs :
        /\ proc[p].op = "vac" /\ proc[p].pc = "done" /\ ~proc[p].hit
        /\ proc[p].outcome = "expired" /\ proc[p].inc = <<"expired">>

C35_StaticForwarded ==
    \E p \in Procs :
        proc[p].op = "mw" /\ proc[p].pc = "done" /\ proc[p].fwd /\ proc[p].inc = <<>>

HashReturned(p) == proc[p].pc = "done" /\ proc[p].op = "hash"

\* the characters of the unpadded base64url encoding of SHA-256(value), as
\* the standard library gives them for the values of the model
Base64Sha256(value) ==
    CASE value = "" ->
           <<"4","7","D","E","Q","p","j","8","H","B","S","a","-","_","T","I","m","W","-",
             "5","J","C","e","u","Q","e","R","k","m","5","N","M","p","J","W","Z","G","3",
             "h","S","u","F","U">>
      [] value = "admin" ->
           <<"j","G","l","2","5","b","V","B","B","B","W","9","6","Q","i","9","T","e","4",
             "V","3","7","F","n","q","c","h","z","_","E","u","4","q","B","9","v","K","r",
             "R","I","q","R","g">>
      [] value = "k1" ->
           <<"a","r","n","x","6","4","9","9","M","4","j","0","-","d","W","G","9","m","6",
             "Z","_","V","Q","I","D","f","L","E","R","v","D","l","h","m","i","w","n","A",
             "i","h","b","d","A">>

C37_GetRemovesOnlyExpired ==
    [][ \A p \in Procs :
           (/\ proc[p].pc = "vac_evict" /\ proc'[p].pc = "vac_read"
            /\ proc[p].key \in DOMAIN cache
            /\ proc[p].key \notin DOMAIN cache')
              => clock > cache[proc[p].key].expiresAt
      ]_vars

NegativeOutcomes == {"unauthorized", "expired", "revoked", "exhausted"}

\* C38: whenever the decision cache holds an unexpired entry with outcome
\* unauthorized, expired, revoked or exhausted for key K, a repository
\* Consume(K) at that moment would also be refused: the cache never denies a
\* key that the store would authorize.  Stated for the keys that
\* IssueTemporaryKey has returned, so that the moment between the create and
\* the cache.Delete inside IssueTemporaryKey does not count.
C38_CacheDeniesOnlyRefused ==
    \A k \in known :
        (CacheHit(k, clock) /\ cache[k].outcome \in NegativeOutcomes)
           => ConsumeCheck(Snapshot(k), clock) # "nil"

\* C39: a ValidateAndConsume call that has returned lowered the stored
\* remaining_usage of its key exactly once if it returned authorized and not
\* at all if it returned any other outcome, retried attempts included
\* (proc[p].dec counts the decrements that the call's transactions committed).
C39_OneDecrementIffAuthorized ==
    \A p \in Procs :
        (proc[p].op = "vac" /\ proc[p].pc = "done")
           => proc[p].dec = IF proc[p].outcome = "authorized" THEN 1 ELSE 0

\* a call returned authorized after it lowered remaining_usage twice
C39_TwoDecrements ==
    \E p \in Procs :
        /\ proc[p].op = "vac" /\ proc[p].pc = "done"
        /\ proc[p].outcome = "authorized" /\ proc[p].dec = 2

\* a call returned exhausted after it took the last use itself
C39_ExhaustedAfterOwnDecrement ==
    \E p \in Procs :
        /\ proc[p].op = "vac" /\ proc[p].pc = "done"
        /\ proc[p].outcome = "exhausted" /\ proc[p].dec = 1

\* the transaction of Consume has read the record and decides in this step
ConsumeDecides(p) == proc[p].pc = "vac_read" /\ proc'[p].pc \in {"vac_commit", "vac_post"}

\* C40: the repository operations agree on expiry: when Consume(key, now)
\* finds the record consumable, CountActive(now) counts that record and
\* DeleteExpired(now, limit) would not select it, also at now = expires_at.
C40_ConsumeAgreesWithQueries ==
    [][ \A p \in Procs :
           (ConsumeDecides(p) /\ proc'[p].pc = "vac_commit")
              => /\ proc[p].key \in ActiveQuery(proc[p].now)
                 /\ proc[p].key \notin UNION ExpiredSelections(proc[p].now, MaxKeys)
      ]_vars

\* the second half of C40: Consume finds the record consumable exactly when
\* its Status(now) is active
C40_ConsumeIffStatusActive ==
    [][ \A p \in Procs :
           (ConsumeDecides(p) /\ proc[p].key \in DOMAIN store)
              => (proc'[p].pc = "vac_commit"
                    <=> Status(store[proc[p].key], proc[p].now) = "active")
      ]_vars

\* a Consume at now = expires_at went on to decrement the record
C40_ConsumedAtExpiry ==
    \E p \in Procs :
        /\ proc[p].pc = "vac_commit"
        /\ proc[p].snap[1].exp = proc[p].now

====
